---- MODULE Spec2Model ----
(***************************************************************************)
(* Model of the decision core of the adaptive learning engine:             *)
(*   MasteryTracker   (src/js/core/MasteryTracker.js, lines 5-608)         *)
(*   ProgressionGate  (src/js/mechanics/ProgressionGate.js)                *)
(*   LearningEngine   (src/js/core/MasteryTracker.js, lines 614-1275)      *)
(*   JustificationValidator                                                *)
(*                    (src/js/mechanics/JustificationValidator.js, 5-597)  *)
(*                                                                         *)
(* The operators on rationals and on texts give the meaning of JavaScript  *)
(* numbers and of the String and RegExp methods the source calls.          *)
(* Time is counted in hours (HOUR = 60*60*1000 ms in the source).  Scores  *)
(* are exact rationals <<numerator, denominator>> in lowest terms; the     *)
(* inputs are chosen so that no comparison of the source falls on a value  *)
(* where IEEE doubles and exact rationals would disagree.                  *)
(***************************************************************************)
EXTENDS Integers, Sequences, FiniteSets, TLC

VARIABLES
    now,                \* Date.now(), in hours
    ticks,              \* how often the clock was advanced (bounds the model)
    attemptHistory,     \* MasteryTracker.attemptHistory
    conceptProgress,    \* MasteryTracker.conceptProgress   (Map concept -> progress)
    masteryHistory,     \* MasteryTracker.masteryHistory    (Map concept -> achievements)
    spacedRepetition,   \* MasteryTracker.spacedRepetition  (Map concept -> next review)
    progressionHistory, \* ProgressionGate.progressionHistory (Map learner id -> decisions)
    blockedAttempts,    \* ProgressionGate.blockedAttempts    (Map key -> blocked record)
    lastEval,           \* what the last evaluateProgression call was given and returned
    evals,              \* evaluateProgression calls made (bounds the model)
    lastStep,           \* what the last call of one of the gate's steps was given and returned
    currentUnit,        \* LearningEngine.currentUnit
    currentPhase,       \* LearningEngine.currentPhase
    localStorage,       \* window.localStorage (survives a reload)
    sessionStorage,     \* window.sessionStorage (survives a reload)
    acknowledged,       \* attempts LearningEngine has processed to the end
    reloads,            \* how often the page was reloaded (bounds the model)
    currentAttempts,    \* LearningEngine.currentAttempts
    submissions,        \* submit actions of the learner that carried an answer and a reasoning
    validateCall,       \* the arguments JustificationValidator.validate is called with
    reasoningValidation \* whether validate was called, and what it returned

vars == <<now, ticks, attemptHistory, conceptProgress, masteryHistory, spacedRepetition,
          progressionHistory, blockedAttempts, lastEval, evals, lastStep,
          currentUnit,
          currentPhase, localStorage, sessionStorage, acknowledged, reloads,
          currentAttempts, submissions, validateCall, reasoningValidation>>

trackerVars == <<attemptHistory, conceptProgress, masteryHistory, spacedRepetition>>
gateVars == <<progressionHistory, blockedAttempts, lastEval, evals, lastStep>>
engineVars == <<currentUnit, currentPhase, localStorage, sessionStorage, acknowledged, reloads,
                currentAttempts, submissions>>
validatorVars == <<validateCall, reasoningValidation>>

----------------------------------------------------------------------------
(* Bounds of the model *)

MaxAttempts == 3        \* recordAttempt calls explored
MaxTicks == 2           \* clock advances explored
MaxEvals == 6           \* evaluateProgression calls explored
MaxAchievements == 3    \* cap on the length of one concept's masteryHistory
MaxReloads == 1         \* page reloads explored
MaxSubmits == 3         \* submit actions explored
MaxHistory == 6         \* attempts explored on one concept
StackDepth == 2         \* frames of getPerformanceAnalytics before the stack overflows
MaxGateTicks == 1       \* clock advances explored between calls of the gate

(* Time *)
HOUR == 1
DAY == 24
NoTime == -1            \* null / undefined timestamp

----------------------------------------------------------------------------
(* Exact rationals *)

Abs(x) == IF x < 0 THEN -x ELSE x

RECURSIVE GCD(_, _)
GCD(a, b) == IF b = 0 THEN a ELSE GCD(b, a % b)

Rat(n, d) == LET g == GCD(Abs(n), d) IN <<n \div g, d \div g>>
Zero == <<0, 1>>
One == <<1, 1>>
Half == <<1, 2>>
RAdd(a, b) == Rat(a[1] * b[2] + b[1] * a[2], a[2] * b[2])
RSub(a, b) == Rat(a[1] * b[2] - b[1] * a[2], a[2] * b[2])
RMul(a, b) == Rat(a[1] * b[1], a[2] * b[2])
RDivInt(a, k) == Rat(a[1], a[2] * k)
RGeq(a, b) == a[1] * b[2] >= b[1] * a[2]
RLt(a, b) == ~RGeq(a, b)
RFloor(a) == a[1] \div a[2]
RMax(a, b) == IF RGeq(a, b) THEN a ELSE b

RECURSIVE RSum(_)
RSum(s) == IF s = <<>> THEN Zero ELSE RAdd(Head(s), RSum(Tail(s)))

RECURSIVE ISum(_)
ISum(s) == IF s = <<>> THEN 0 ELSE Head(s) + ISum(Tail(s))

(* Array.prototype.slice(-k) *)
LastN(s, k) == IF Len(s) <= k THEN s ELSE SubSeq(s, Len(s) - k + 1, Len(s))

(* Map.set *)
Put(f, k, v) == [x \in (DOMAIN f) \cup {k} |-> IF x = k THEN v ELSE f[x]]
EmptyMap == [x \in {} |-> 0]

NumCorrect(as) == Len(SelectSeq(as, LAMBDA a : a.isCorrect))

----------------------------------------------------------------------------
(* MasteryTracker: configuration *)

Components == <<"accuracy", "consistency", "reasoning", "retention", "application">>

(* thresholds that four correct attempts out of five pass *)
masteryThresholdsLowered ==
    [accuracy |-> Rat(70, 100), consistency |-> Rat(50, 100), reasoning |-> Rat(75, 100),
     retention |-> Rat(50, 100), application |-> Rat(70, 100)]

masteryThresholds ==
    [accuracy |-> Rat(85, 100), consistency |-> Rat(80, 100), reasoning |-> Rat(75, 100),
     retention |-> Rat(70, 100), application |-> Rat(80, 100)]

masteryWeights ==
    [accuracy |-> Rat(30, 100), consistency |-> Rat(25, 100), reasoning |-> Rat(20, 100),
     retention |-> Rat(15, 100), application |-> Rat(10, 100)]

retentionIntervals == <<1, 3, 7, 14, 30, 60>>   \* days

(* The tracker's fields as one value, so its methods are operators on it *)
Tracker == [ah |-> attemptHistory, cp |-> conceptProgress,
            mh |-> masteryHistory, sr |-> spacedRepetition]

NewTracker == [ah |-> <<>>, cp |-> EmptyMap, mh |-> EmptyMap, sr |-> EmptyMap]

----------------------------------------------------------------------------
(* MasteryTracker: utility methods *)

updateMovingAverage(currentAverage, newValue, count) ==
    IF count = 1 THEN <<newValue, 1>>
    ELSE RDivInt(RAdd(RMul(currentAverage, <<count - 1, 1>>), <<newValue, 1>>), count)

getRecentAttempts(T, concept, count) ==
    LastN(SelectSeq(T.ah, LAMBDA a : a.concept = concept), count)

(* The loop of getAttemptsByTimeGaps; cur is <<>> for a null currentGap *)
RECURSIVE GapScan(_, _, _, _)
GapScan(attempts, i, gaps, cur) ==
    IF i > Len(attempts) THEN gaps \o cur
    ELSE LET timeGap == attempts[i].timestamp - attempts[i - 1].timestamp IN
         IF timeGap > HOUR
         THEN GapScan(attempts, i + 1, gaps \o cur,
                      << [timeGap |-> timeGap, afterAttempts |-> <<attempts[i]>>] >>)
         ELSE IF cur # <<>>
         THEN GapScan(attempts, i + 1, gaps,
                      << [cur[1] EXCEPT !.afterAttempts = Append(@, attempts[i])] >>)
         ELSE GapScan(attempts, i + 1, gaps, cur)

(* attemptHistory is in timestamp order (the clock never runs backwards and the
   sort is stable), so the sort of the source leaves the filtered list as it is *)
getAttemptsByTimeGaps(T, concept) ==
    LET attempts == SelectSeq(T.ah, LAMBDA a : a.concept = concept)
    IN  [attempts |-> attempts, gaps |-> GapScan(attempts, 2, <<>>, <<>>)]

getRecentOverallPerformance(T, t) ==
    LET cutoff == t - 7 * DAY
        recentAttempts == SelectSeq(T.ah, LAMBDA a : a.timestamp >= cutoff)
    IN  IF Len(recentAttempts) = 0 THEN Zero
        ELSE Rat(NumCorrect(recentAttempts), Len(recentAttempts))

----------------------------------------------------------------------------
(* MasteryTracker: the five scores *)

calculateAccuracyScore(T, progress) ==
    IF progress.totalAttempts = 0 THEN Zero
    ELSE LET recentAttempts == getRecentAttempts(T, progress.concept, 5) IN
         IF Len(recentAttempts) = 0 THEN Zero
         ELSE Rat(NumCorrect(recentAttempts), Len(recentAttempts))

(* variance of the 0/1 performances: k ones and n-k zeros around mean k/n *)
(* a consistency score that takes four times the variance off *)
calculateConsistencyScoreSteep(T, progress) ==
    LET recentAttempts == getRecentAttempts(T, progress.concept, 10)
        n == Len(recentAttempts)
        k == NumCorrect(recentAttempts)
    IN  IF n < 3 THEN Zero
        ELSE LET mean == Rat(k, n)
                 d1 == RSub(One, mean)
                 d0 == RSub(Zero, mean)
                 variance == RDivInt(RAdd(RMul(<<k, 1>>, RMul(d1, d1)),
                                          RMul(<<n - k, 1>>, RMul(d0, d0))), n)
             IN  RMax(Zero, RSub(One, RMul(variance, <<4, 1>>)))

calculateConsistencyScore(T, progress) ==
    LET recentAttempts == getRecentAttempts(T, progress.concept, 10)
        n == Len(recentAttempts)
        k == NumCorrect(recentAttempts)
    IN  IF n < 3 THEN Zero
        ELSE LET mean == Rat(k, n)
                 d1 == RSub(One, mean)
                 d0 == RSub(Zero, mean)
                 variance == RDivInt(RAdd(RMul(<<k, 1>>, RMul(d1, d1)),
                                          RMul(<<n - k, 1>>, RMul(d0, d0))), n)
             IN  RMax(Zero, RSub(One, RMul(variance, <<2, 1>>)))

calculateReasoningScore(progress) ==
    IF Len(progress.reasoningScores) = 0 THEN Zero
    ELSE LET recent == LastN(progress.reasoningScores, 5)
         IN  Rat(ISum(recent), 100 * Len(recent))

RECURSIVE GapPerformances(_)
GapPerformances(gaps) ==
    IF gaps = <<>> THEN <<>>
    ELSE LET gap == Head(gaps) IN
         (IF gap.timeGap > 24 * HOUR
          THEN << Rat(NumCorrect(gap.afterAttempts), Len(gap.afterAttempts)) >>
          ELSE <<>>) \o GapPerformances(Tail(gaps))

calculateRetentionScore(T, progress) ==
    LET attempts == getAttemptsByTimeGaps(T, progress.concept) IN
    IF Len(attempts.gaps) < 2 THEN Half
    ELSE LET perf == GapPerformances(attempts.gaps)
             gapCount == Len(perf)
         IN  IF gapCount > 0 THEN RDivInt(RSum(perf), gapCount) ELSE Half

(* an application score that counts a concept without assessment attempts as
   fully applied *)
calculateApplicationScoreDefaultOne(T, progress) ==
    LET applicationAttempts ==
            SelectSeq(T.ah, LAMBDA a : a.concept = progress.concept
                                       /\ a.context = "assessment")
    IN  IF Len(applicationAttempts) = 0 THEN One
        ELSE Rat(NumCorrect(applicationAttempts), Len(applicationAttempts))

calculateApplicationScore(T, progress) ==
    LET applicationAttempts ==
            SelectSeq(T.ah, LAMBDA a : a.concept = progress.concept
                                       /\ a.context = "assessment")
    IN  IF Len(applicationAttempts) = 0 THEN Half
        ELSE Rat(NumCorrect(applicationAttempts), Len(applicationAttempts))

calculateMasteryScores(T, progress) ==
    [accuracy    |-> calculateAccuracyScore(T, progress),
     consistency |-> progress.consistencyScore,
     reasoning   |-> calculateReasoningScore(progress),
     retention   |-> progress.retentionScore,
     application |-> calculateApplicationScore(T, progress)]

calculateOverallMastery(scores) ==
    RSum([i \in 1..Len(Components) |->
            RMul(scores[Components[i]], masteryWeights[Components[i]])])

allComponentsMeetThreshold(scores) ==
    \A i \in 1..Len(Components) :
        RGeq(scores[Components[i]], masteryThresholds[Components[i]])

----------------------------------------------------------------------------
(* MasteryTracker: recording and evaluation.  Every method takes the tracker
   T and the time t of the call and yields the tracker it leaves behind. *)

(* a scheduler whose intervals stop one short of the longest *)
scheduleBelowLongest(T, concept, wasCorrect, wasMastered, t) ==
    IF concept \notin DOMAIN T.cp THEN T
    ELSE LET last == Len(retentionIntervals) - 2
             f == RFloor(RMul(T.cp[concept].consistencyScore,
                              <<Len(retentionIntervals), 1>>))
             intervalIndex == IF wasMastered \/ ~wasCorrect THEN 0
                              ELSE IF f < last THEN f ELSE last
             nextReview == t + retentionIntervals[intervalIndex + 1] * 24 * HOUR
         IN  [T EXCEPT !.sr = Put(T.sr, concept, nextReview),
                       !.cp[concept].nextReviewDue = nextReview]

scheduleSpacedRepetition(T, concept, wasCorrect, wasMastered, t) ==
    IF concept \notin DOMAIN T.cp THEN T
    ELSE LET progress == T.cp[concept]
             last == Len(retentionIntervals) - 1
             intervalIndex ==
                 IF wasMastered THEN (IF last < 4 THEN last ELSE 4)
                 ELSE IF wasCorrect
                 THEN LET f == RFloor(RMul(progress.consistencyScore,
                                           <<Len(retentionIntervals), 1>>))
                      IN  IF f < last THEN f ELSE last
                 ELSE 0
             intervalDays == retentionIntervals[intervalIndex + 1]
             nextReview == t + intervalDays * 24 * HOUR
         IN  [T EXCEPT !.sr = Put(T.sr, concept, nextReview),
                       !.cp[concept].nextReviewDue = nextReview]

recordMasteryAchievement(T, concept, scores, overallScore, t) ==
    LET old == IF concept \in DOMAIN T.mh THEN T.mh[concept] ELSE <<>>
        achievement == [timestamp |-> t,
                        concept |-> concept,
                        overallScore |-> overallScore,
                        attemptsRequired |-> T.cp[concept].totalAttempts,
                        timeToMastery |-> t - T.cp[concept].firstSeenDate]
        T1 == [T EXCEPT !.mh = Put(T.mh, concept, Append(old, achievement))]
    IN  scheduleSpacedRepetition(T1, concept, TRUE, TRUE, t)

(* an evaluation that looks at the overall score alone *)
evaluateMasteryByOverallScore(T, concept, t) ==
    IF concept \notin DOMAIN T.cp \/ T.cp[concept].totalAttempts < 3
    THEN [T |-> T, result |-> FALSE]
    ELSE LET progress == T.cp[concept]
             scores == calculateMasteryScores(T, progress)
             overallMastery == calculateOverallMastery(scores)
             T1 == [T EXCEPT !.cp[concept].masteryLevel = overallMastery]
         IN  IF RGeq(overallMastery, masteryThresholds.accuracy)
             THEN [T |-> recordMasteryAchievement(T1, concept, scores, overallMastery, t),
                   result |-> TRUE]
             ELSE [T |-> T1, result |-> FALSE]

evaluateMastery(T, concept, t) ==
    IF concept \notin DOMAIN T.cp \/ T.cp[concept].totalAttempts < 3
    THEN [T |-> T, result |-> FALSE]
    ELSE LET progress == T.cp[concept]
             scores == calculateMasteryScores(T, progress)
             overallMastery == calculateOverallMastery(scores)
             T1 == [T EXCEPT !.cp[concept].masteryLevel = overallMastery]
         IN  IF RGeq(overallMastery, masteryThresholds.accuracy)
                /\ allComponentsMeetThreshold(scores)
             THEN [T |-> recordMasteryAchievement(T1, concept, scores, overallMastery, t),
                   result |-> TRUE]
             ELSE [T |-> T1, result |-> FALSE]

NewProgress(concept, t) ==
    [concept |-> concept, totalAttempts |-> 0, correctAttempts |-> 0,
     averageAttempts |-> Zero, averageTime |-> Zero, reasoningScores |-> <<>>,
     difficultyLevel |-> 1, masteryLevel |-> Zero, consistencyScore |-> Zero,
     retentionScore |-> Zero, applicationScore |-> Zero, firstSeenDate |-> t,
     lastMasteryCheck |-> t, lastAttemptAt |-> NoTime, nextReviewDue |-> NoTime]

(* a tracker that counts every attempt as a correct one *)
countAttemptAsCorrect(p0, attempt) ==
    [p0 EXCEPT !.totalAttempts = @ + 1, !.correctAttempts = @ + 1]

(* the counters of updateConceptProgress *)
countAttempt(p0, attempt) ==
    [p0 EXCEPT !.totalAttempts = @ + 1,
               !.correctAttempts = IF attempt.isCorrect THEN @ + 1 ELSE @]

updateConceptProgress(T, concept, attempt, t) ==
    LET p0 == IF concept \in DOMAIN T.cp THEN T.cp[concept] ELSE NewProgress(concept, t)
        pc == countAttempt(p0, attempt)
        pushed == Append(pc.reasoningScores, attempt.reasoningScore)
        p1 == [pc EXCEPT
                 !.averageAttempts = updateMovingAverage(@, attempt.attempts,
                                                         pc.totalAttempts),
                 !.averageTime = updateMovingAverage(@, attempt.timeSpent,
                                                     pc.totalAttempts),
                 !.reasoningScores = IF Len(pushed) > 10 THEN Tail(pushed) ELSE pushed,
                 !.lastAttemptAt = attempt.timestamp,
                 !.lastMasteryCheck = t]
        p2 == [p1 EXCEPT !.consistencyScore = calculateConsistencyScore(T, p1)]
        p3 == [p2 EXCEPT !.retentionScore = calculateRetentionScore(T, p2)]
    IN  [T EXCEPT !.cp = Put(T.cp, concept, p3)]

recordAttempt(T, concept, isCorrect, attempts, timeSpent, reasoningScore, context, t) ==
    LET attempt == [timestamp |-> t, concept |-> concept, isCorrect |-> isCorrect,
                    attempts |-> attempts, timeSpent |-> timeSpent,
                    reasoningScore |-> reasoningScore, context |-> context]
        T1 == [T EXCEPT !.ah = Append(T.ah, attempt)]
        T2 == updateConceptProgress(T1, concept, attempt, t)
        ev == evaluateMastery(T2, concept, t)
    IN  scheduleSpacedRepetition(ev.T, concept, isCorrect, FALSE, t)

----------------------------------------------------------------------------
(* MasteryTracker: queries.  They call evaluateMastery, which writes. *)

(* requiredConcepts.every(...): stops at the first concept that fails *)
RECURSIVE everyMastered(_, _, _, _)
everyMastered(T, concepts, i, t) ==
    IF i > Len(concepts) THEN [T |-> T, result |-> TRUE]
    ELSE IF concepts[i] \notin DOMAIN T.cp THEN [T |-> T, result |-> FALSE]
    ELSE LET rest(ev) == IF ev.result THEN everyMastered(ev.T, concepts, i + 1, t)
                         ELSE [T |-> ev.T, result |-> FALSE]
         IN  rest(evaluateMastery(T, concepts[i], t))

(* concepts.filter(...): looks at every concept *)
RECURSIVE unmasteredFrom(_, _, _, _, _)
unmasteredFrom(T, concepts, i, t, acc) ==
    IF i > Len(concepts) THEN [T |-> T, result |-> acc]
    ELSE IF concepts[i] \notin DOMAIN T.cp
    THEN unmasteredFrom(T, concepts, i + 1, t, Append(acc, concepts[i]))
    ELSE LET rest(ev) ==
                 unmasteredFrom(ev.T, concepts, i + 1, t,
                                IF ev.result THEN acc ELSE Append(acc, concepts[i]))
         IN  rest(evaluateMastery(T, concepts[i], t))

getUnmasteredConcepts(T, concepts, t) == unmasteredFrom(T, concepts, 1, t, <<>>)

(* getProgressionRecommendations changes the tracker only through
   getUnmasteredConcepts *)
canProgress(T, requiredConcepts, t) ==
    LET answer(every) ==
            IF ~every.result
            THEN LET blockers == getUnmasteredConcepts(every.T, requiredConcepts, t)
                     recommendations ==
                         getUnmasteredConcepts(blockers.T, requiredConcepts, t)
                 IN  [T |-> recommendations.T, canProgress |-> FALSE,
                      reason |-> "Required concepts not mastered"]
            ELSE IF RLt(getRecentOverallPerformance(every.T, t),
                        masteryThresholds.accuracy)
            THEN [T |-> every.T, canProgress |-> FALSE,
                  reason |-> "Recent performance below threshold"]
            ELSE [T |-> every.T, canProgress |-> TRUE, reason |-> ""]
    IN  answer(everyMastered(T, requiredConcepts, 1, t))

(* the spacedRepetition entries that are due, with how long they are overdue *)
getConceptsDueForReview(T, t) ==
    {c \in DOMAIN T.sr : T.sr[c] # 0 /\ T.sr[c] <= t /\ c \in DOMAIN T.cp}

(* the keys of conceptProgress in insertion order: the order of first attempts *)
RECURSIVE firstSeenOrder(_, _)
firstSeenOrder(ah, acc) ==
    IF ah = <<>> THEN acc
    ELSE firstSeenOrder(Tail(ah),
                        IF \E i \in 1..Len(acc) : acc[i] = Head(ah).concept
                        THEN acc ELSE Append(acc, Head(ah).concept))

RECURSIVE evaluateAll(_, _, _, _)
evaluateAll(T, concepts, i, t) ==
    IF i > Len(concepts) THEN T
    ELSE evaluateAll(evaluateMastery(T, concepts[i], t).T, concepts, i + 1, t)

(* getPerformanceAnalytics and generatePerformanceRecommendations call each other
   without a base case.  stack is the number of getPerformanceAnalytics frames the
   engine's call stack still has room for; with none left the call throws a
   RangeError.  Every frame has evaluated mastery of every concept before it
   recurses, and what that wrote stays written. *)
RECURSIVE getPerformanceAnalytics(_, _, _)
RECURSIVE generatePerformanceRecommendations(_, _, _)

generatePerformanceRecommendations(T, t, stack) ==
    getPerformanceAnalytics(T, t, stack - 1)

getPerformanceAnalytics(T, t, stack) ==
    IF stack <= 0 THEN [T |-> T, threw |-> TRUE, recentAccuracy |-> Zero]
    ELSE LET recentAttempts == LastN(T.ah, 20)
             recentAccuracy == IF Len(recentAttempts) > 0
                               THEN Rat(NumCorrect(recentAttempts), Len(recentAttempts))
                               ELSE Zero
             analytics(rec) ==
                 IF rec.threw THEN [T |-> rec.T, threw |-> TRUE, recentAccuracy |-> Zero]
                 ELSE [T |-> rec.T, threw |-> FALSE, recentAccuracy |-> recentAccuracy]
         IN  analytics(generatePerformanceRecommendations(
                           evaluateAll(T, firstSeenOrder(T.ah, <<>>), 1, t), t, stack))

(* MasteryTracker defines no getMasteryStatus, which verifyMasteryEvidence calls *)
TrackerHasGetMasteryStatus == FALSE

----------------------------------------------------------------------------
(* ProgressionGate: configuration *)

gateRules ==
    [mastery  |-> [accuracy |-> Rat(85, 100), consistency |-> Rat(80, 100),
                   retention |-> Rat(75, 100), application |-> Rat(80, 100),
                   reasoning |-> Rat(75, 100)],
     evidence |-> [minAttempts |-> 3, minTimeSpent |-> 300000]]

GateDimensions == <<"accuracy", "consistency", "retention", "application", "reasoning">>

initializeLevelRequirements ==
    [l \in 2..5 |->
        CASE l = 2 -> [requiredConcepts |-> <<"basic-arithmetic", "reading-comprehension">>,
                       minTimeSpent |-> 180000, retentionTestRequired |-> FALSE]
          [] l = 3 -> [requiredConcepts |-> <<"problem-solving-basics", "logical-reasoning">>,
                       minTimeSpent |-> 300000, retentionTestRequired |-> TRUE]
          [] l = 4 -> [requiredConcepts |-> <<"analytical-thinking", "pattern-recognition",
                                              "concept-application">>,
                       minTimeSpent |-> 450000, retentionTestRequired |-> TRUE]
          [] l = 5 -> [requiredConcepts |-> <<"advanced-problem-solving",
                                              "creative-application", "knowledge-transfer">>,
                       minTimeSpent |-> 600000, retentionTestRequired |-> TRUE]]

getLevelRequirements(level) ==
    IF level \in DOMAIN initializeLevelRequirements
    THEN initializeLevelRequirements[level]
    ELSE [requiredConcepts |-> <<>>, minTimeSpent |-> 300000,
          retentionTestRequired |-> TRUE]

SafetyReason == "Evaluation system error - progression blocked for safety"

(* The gate's two maps as one value *)
Gate == [ph |-> progressionHistory, ba |-> blockedAttempts]
NewGate == [ph |-> EmptyMap, ba |-> EmptyMap]

----------------------------------------------------------------------------
(* ProgressionGate: step 1, eligibility *)

(* the template string `${learnerProfile.id}-${targetLevel}` *)
blockedKey(learnerId, targetLevel) == learnerId \o "-" \o ToString(targetLevel)

(* a search of the blocked attempts that looks at no timestamp *)
getBlockedAttemptsEver(G, learnerId, t) ==
    {k \in DOMAIN G.ba : G.ba[k].learnerId = learnerId}

getRecentBlockedAttempts(G, learnerId, t) ==
    LET cutoff == t - 24 * HOUR
    IN  {k \in DOMAIN G.ba : G.ba[k].learnerId = learnerId /\ G.ba[k].timestamp >= cutoff}

checkActiveRestrictions(G, learnerProfile, t) ==
    IF Cardinality(getRecentBlockedAttempts(G, learnerProfile.id, t)) > 3
    THEN <<"cooling-period">>
    ELSE <<>>

(* an eligibility check that lets a learner skip one level *)
checkBasicEligibilitySkipOne(G, learnerProfile, targetLevel, t) ==
    LET r1 == IF targetLevel > learnerProfile.level + 2
              THEN [eligible |-> FALSE, reason |-> "Cannot skip levels",
                    blockers |-> <<"level-sequence">>]
              ELSE [eligible |-> TRUE, reason |-> "", blockers |-> <<>>]
        r2 == IF targetLevel <= learnerProfile.level
              THEN [eligible |-> FALSE, reason |-> "Already at or above target level",
                    blockers |-> Append(r1.blockers, "already-achieved")]
              ELSE r1
        restrictions == checkActiveRestrictions(G, learnerProfile, t)
    IN  IF Len(restrictions) > 0
        THEN [eligible |-> FALSE, reason |-> "Active learning restrictions in place",
              blockers |-> r2.blockers \o restrictions]
        ELSE r2

checkBasicEligibility(G, learnerProfile, targetLevel, t) ==
    LET r0 == [eligible |-> TRUE, reason |-> "", blockers |-> <<>>]
        r1 == IF targetLevel > learnerProfile.level + 1
              THEN [eligible |-> FALSE, reason |-> "Cannot skip levels",
                    blockers |-> Append(r0.blockers, "level-sequence")]
              ELSE r0
        r2 == IF targetLevel <= learnerProfile.level
              THEN [eligible |-> FALSE, reason |-> "Already at or above target level",
                    blockers |-> Append(r1.blockers, "already-achieved")]
              ELSE r1
        restrictions == checkActiveRestrictions(G, learnerProfile, t)
    IN  IF Len(restrictions) > 0
        THEN [eligible |-> FALSE, reason |-> "Active learning restrictions in place",
              blockers |-> r2.blockers \o restrictions]
        ELSE r2

----------------------------------------------------------------------------
(* ProgressionGate: step 2, mastery evidence.  A step yields the tracker it
   leaves behind and threw = TRUE when it ended in an exception. *)

(* requiredConcepts.forEach(...) *)
RECURSIVE verifyRequired(_, _, _, _, _)
verifyRequired(T, concepts, i, t, sufficient) ==
    IF i > Len(concepts) THEN [T |-> T, threw |-> FALSE, sufficient |-> sufficient]
    ELSE LET rest(ev) ==
                 IF ev.result THEN verifyRequired(ev.T, concepts, i + 1, t, sufficient)
                 ELSE IF ~TrackerHasGetMasteryStatus
                 THEN [T |-> ev.T, threw |-> TRUE, sufficient |-> FALSE]    \* TypeError
                 ELSE verifyRequired(ev.T, concepts, i + 1, t, FALSE)
         IN  rest(evaluateMastery(T, concepts[i], t))

calculateOverallConsistency(T, t, stack) ==
    LET analytics == getPerformanceAnalytics(T, t, stack)
    IN  [T |-> analytics.T, threw |-> analytics.threw, value |-> analytics.recentAccuracy]

verifyMasteryEvidence(T, learnerProfile, targetLevel, t, stack) ==
    LET requirements == getLevelRequirements(targetLevel)
        req == verifyRequired(T, requirements.requiredConcepts, 1, t, TRUE)
    IN  IF req.threw THEN req
        ELSE LET performance == getRecentOverallPerformance(req.T, t)
                 consistency == calculateOverallConsistency(req.T, t, stack)
             IN  IF consistency.threw
                 THEN [T |-> consistency.T, threw |-> TRUE, sufficient |-> FALSE]
                 ELSE [T |-> consistency.T, threw |-> FALSE,
                       sufficient |-> /\ req.sufficient
                                      /\ RGeq(performance, gateRules.mastery.accuracy)
                                      /\ RGeq(consistency.value,
                                              gateRules.mastery.consistency)]

----------------------------------------------------------------------------
(* ProgressionGate: step 3, retention and application *)

getLastMajorLearningTime(learnerProfile, t) ==
    IF learnerProfile.lastLearningSession \notin {NoTime, 0}
    THEN learnerProfile.lastLearningSession
    ELSE t - 24 * HOUR

checkApplicationSuccess(T, t, stack) ==
    LET analytics == getPerformanceAnalytics(T, t, stack)
    IN  [T |-> analytics.T, threw |-> analytics.threw, sufficient |-> TRUE]

checkRetentionAndApplication(T, learnerProfile, t, stack) ==
    LET timeSincelearning == t - getLastMajorLearningTime(learnerProfile, t)
        retentionOk == ~(timeSincelearning < 24 * HOUR)
        app == checkApplicationSuccess(T, t, stack)
    IN  IF app.threw THEN [T |-> app.T, threw |-> TRUE, passed |-> FALSE]
        ELSE LET overdueReviews ==
                     {c \in getConceptsDueForReview(app.T, t) : t - app.T.sr[c] > 0}
             IN  [T |-> app.T, threw |-> FALSE,
                  passed |-> retentionOk /\ app.sufficient /\ overdueReviews = {}]

----------------------------------------------------------------------------
(* ProgressionGate: step 4, final gate *)

compileComprehensiveEvidence(T, t, stack) ==
    LET analytics == getPerformanceAnalytics(T, t, stack)
    IN  [T |-> analytics.T, threw |-> analytics.threw,
         evidence |-> [accuracy |-> analytics.recentAccuracy,
                       consistency |-> analytics.recentAccuracy,
                       retention |-> Rat(85, 100),
                       application |-> Rat(80, 100),
                       reasoning |-> Rat(85, 100),
                       totalAttempts |-> 10,
                       totalTimeSpent |-> 600000]]

applyStrictCriteria(evidence) ==
    /\ \A i \in 1..Len(GateDimensions) :
          ~RLt(evidence[GateDimensions[i]], gateRules.mastery[GateDimensions[i]])
    /\ ~(evidence.totalAttempts < gateRules.evidence.minAttempts)
    /\ ~(evidence.totalTimeSpent < gateRules.evidence.minTimeSpent)

(* simulatedChallenge holds the Math.random() draws; it has no consistency and no
   retention entry, and those two areas are skipped *)
performChallengeAssessment(simulatedChallenge) ==
    \A area \in {"accuracy", "reasoning", "application"} :
        ~RLt(simulatedChallenge[area], gateRules.mastery[area])

performFinalGateEvaluation(T, t, stack, simulatedChallenge) ==
    LET ce == compileComprehensiveEvidence(T, t, stack) IN
    IF ce.threw THEN [T |-> ce.T, threw |-> TRUE, passed |-> FALSE, reason |-> ""]
    ELSE IF applyStrictCriteria(ce.evidence)
    THEN IF performChallengeAssessment(simulatedChallenge)
         THEN [T |-> ce.T, threw |-> FALSE, passed |-> TRUE,
               reason |-> "All requirements met with demonstrated mastery"]
         ELSE [T |-> ce.T, threw |-> FALSE, passed |-> FALSE,
               reason |-> "Challenge assessment failed"]
    ELSE [T |-> ce.T, threw |-> FALSE, passed |-> FALSE,
          reason |-> "Strict mastery criteria not met"]

----------------------------------------------------------------------------
(* ProgressionGate: the audit trail *)

(* a record that is written at the first block and left alone afterwards *)
recordBlockedAttemptOnce(G, learnerProfile, targetLevel, reason, t) ==
    LET key == blockedKey(learnerProfile.id, targetLevel) IN
    IF key \in DOMAIN G.ba THEN G
    ELSE [G EXCEPT !.ba = Put(G.ba, key,
                              [timestamp |-> t, learnerId |-> learnerProfile.id,
                               targetLevel |-> targetLevel, reason |-> reason,
                               attempts |-> 1, lastAttempt |-> NoTime])]

recordBlockedAttempt(G, learnerProfile, targetLevel, reason, t) ==
    LET key == blockedKey(learnerProfile.id, targetLevel) IN
    IF key \in DOMAIN G.ba
    THEN [G EXCEPT !.ba[key].attempts = @ + 1, !.ba[key].lastAttempt = t]
    ELSE [G EXCEPT !.ba = Put(G.ba, key,
                              [timestamp |-> t, learnerId |-> learnerProfile.id,
                               targetLevel |-> targetLevel, reason |-> reason,
                               attempts |-> 1, lastAttempt |-> NoTime])]

(* an audit trail that keeps only the decisions that allow *)
recordProgressionDecisionAllowsOnly(G, learnerProfile, targetLevel, evaluation, t) ==
    LET decision == [timestamp |-> t,
                     learnerId |-> learnerProfile.id,
                     level |-> learnerProfile.level,
                     targetLevel |-> targetLevel,
                     decision |-> "ALLOW",
                     reason |-> evaluation.reason]
        old == IF learnerProfile.id \in DOMAIN G.ph THEN G.ph[learnerProfile.id] ELSE <<>>
    IN  IF ~evaluation.canProgress
        THEN recordBlockedAttempt(G, learnerProfile, targetLevel, evaluation.reason, t)
        ELSE [G EXCEPT !.ph = Put(G.ph, learnerProfile.id, Append(old, decision))]

recordProgressionDecision(G, learnerProfile, targetLevel, evaluation, t) ==
    LET decision == [timestamp |-> t,
                     learnerId |-> learnerProfile.id,
                     level |-> learnerProfile.level,
                     targetLevel |-> targetLevel,
                     decision |-> IF evaluation.canProgress THEN "ALLOW" ELSE "BLOCK",
                     reason |-> evaluation.reason]
        old == IF learnerProfile.id \in DOMAIN G.ph THEN G.ph[learnerProfile.id] ELSE <<>>
        G1 == [G EXCEPT !.ph = Put(G.ph, learnerProfile.id, Append(old, decision))]
    IN  IF ~evaluation.canProgress
        THEN recordBlockedAttempt(G1, learnerProfile, targetLevel, evaluation.reason, t)
        ELSE G1

----------------------------------------------------------------------------
(* ProgressionGate.evaluateProgression *)

(* a catch block that fails open *)
catchHandlerFailOpen(evaluation) ==
    [evaluation EXCEPT !.canProgress = TRUE, !.reason = SafetyReason]

(* the catch block: it sets the reason and leaves canProgress as it is *)
catchHandler(evaluation) == [evaluation EXCEPT !.reason = SafetyReason]

(* a gate without the catch block's reason *)
DecideWithoutCatch(G, T, learnerProfile, targetLevel, evaluation, t, threw, steps) ==
    [G |-> recordProgressionDecision(G, learnerProfile, targetLevel, evaluation, t),
     T |-> T, evaluation |-> evaluation, threw |-> threw, steps |-> steps]

(* the return of a gate: record the decision, hand back the evaluation *)
Decide(G, T, learnerProfile, targetLevel, evaluation, t, threw, steps) ==
    LET ev == IF threw THEN catchHandler(evaluation) ELSE evaluation
    IN  [G |-> recordProgressionDecision(G, learnerProfile, targetLevel, ev, t),
         T |-> T, evaluation |-> ev, threw |-> threw, steps |-> steps]

(* The steps are taken in the order of the try block.  Each operator below is the
   part of evaluateProgression that runs once the step before it has returned. *)
NewEvaluation == [canProgress |-> FALSE, reason |-> "", blockers |-> <<>>]

StepsToMastery == <<"eligibility", "mastery">>
StepsToRetention == <<"eligibility", "mastery", "retention">>
StepsToFinal == <<"eligibility", "mastery", "retention", "final">>

(* canProgress = true is set, then the evidence is compiled once more *)
allowProgression(G, learnerProfile, targetLevel, t, ce) ==
    Decide(G, ce.T, learnerProfile, targetLevel,
           [NewEvaluation EXCEPT !.canProgress = TRUE,
                                 !.reason = "All mastery requirements met"],
           t, ce.threw, StepsToFinal)

afterFinalGate(G, learnerProfile, targetLevel, t, stack, fg) ==
    IF fg.threw
    THEN Decide(G, fg.T, learnerProfile, targetLevel, NewEvaluation, t, TRUE, StepsToFinal)
    ELSE IF ~fg.passed
    THEN Decide(G, fg.T, learnerProfile, targetLevel,
                [NewEvaluation EXCEPT !.reason = fg.reason], t, FALSE, StepsToFinal)
    ELSE allowProgression(G, learnerProfile, targetLevel, t,
                          compileComprehensiveEvidence(fg.T, t, stack))

afterRetentionCheck(G, learnerProfile, targetLevel, t, stack, simulatedChallenge, rc) ==
    IF rc.threw
    THEN Decide(G, rc.T, learnerProfile, targetLevel, NewEvaluation, t, TRUE,
                StepsToRetention)
    ELSE IF ~rc.passed
    THEN Decide(G, rc.T, learnerProfile, targetLevel,
                [NewEvaluation EXCEPT
                    !.reason = "Retention or application requirements not met"],
                t, FALSE, StepsToRetention)
    ELSE afterFinalGate(G, learnerProfile, targetLevel, t, stack,
                        performFinalGateEvaluation(rc.T, t, stack, simulatedChallenge))

afterMasteryCheck(G, learnerProfile, targetLevel, t, stack, simulatedChallenge, mc) ==
    IF mc.threw
    THEN Decide(G, mc.T, learnerProfile, targetLevel, NewEvaluation, t, TRUE,
                StepsToMastery)
    ELSE IF ~mc.sufficient
    THEN Decide(G, mc.T, learnerProfile, targetLevel,
                [NewEvaluation EXCEPT !.reason = "Insufficient mastery evidence"],
                t, FALSE, StepsToMastery)
    ELSE afterRetentionCheck(G, learnerProfile, targetLevel, t, stack, simulatedChallenge,
                             checkRetentionAndApplication(mc.T, learnerProfile, t, stack))

afterEligibility(G, T, learnerProfile, targetLevel, t, stack, simulatedChallenge, elig) ==
    IF ~elig.eligible
    THEN Decide(G, T, learnerProfile, targetLevel,
                [NewEvaluation EXCEPT !.reason = elig.reason, !.blockers = elig.blockers],
                t, FALSE, <<"eligibility">>)
    ELSE afterMasteryCheck(G, learnerProfile, targetLevel, t, stack, simulatedChallenge,
                           verifyMasteryEvidence(T, learnerProfile, targetLevel, t, stack))

evaluateProgression(G, T, learnerProfile, targetLevel, t, stack, simulatedChallenge) ==
    afterEligibility(G, T, learnerProfile, targetLevel, t, stack, simulatedChallenge,
                     checkBasicEligibility(G, learnerProfile, targetLevel, t))

----------------------------------------------------------------------------
(* LearningEngine: what it keeps and what it saves *)

NoUnit == [concept |-> "none", phase |-> "introduction"]

(* the fields of a unit that the methods under src/ read or write *)
generateNewUnit(conceptToLearn) == [concept |-> conceptToLearn, phase |-> "introduction"]

(* the profile the constructor builds; no method under src/ changes it *)
userProfile == [level |-> 1, experience |-> 0, streak |-> 0]

saveUserProfile(storage) == Put(storage, "userProfile", userProfile)
saveCurrentUnit(storage, unit) == Put(storage, "currentUnit", unit)

(* LearningEngine.transitionToPhase on the engine E.  The phase is written to the
   engine and to the unit first; then initializePhase runs, and the unit is saved
   only if that returns.  For 'introduction' it shows the preview.  For
   'learning' it calls startActivelearning, whose first statement calls lockNotes;
   for 'assessment' startFinalAssessment and for 'results' showResults: the class
   defines none of the three, and supplied is FALSE when that call is a TypeError
   and TRUE when the method is supplied from elsewhere and returns.
   startActivelearning then finds its question: currentQuestionIndex is 0 and no
   method under src/ advances it. *)
transitionToPhase(E, newPhase, supplied) ==
    LET moved == [E EXCEPT !.currentPhase = newPhase, !.currentUnit.phase = newPhase]
    IN  IF newPhase = "introduction" \/ supplied
        THEN [moved EXCEPT !.sessionStorage = saveCurrentUnit(@, moved.currentUnit)]
        ELSE moved

(* LearningEngine.startLearningSession *)
startLearningSession(E) == transitionToPhase(E, "introduction", TRUE)

(* recordAttempt is called without a context argument: the default applies *)
processValidationResult(T, unit, validation, t) ==
    recordAttempt(T, unit.concept, validation.isCorrect, validation.attempts,
                  validation.timeSpent, validation.score, "practice", t)

(* LearningEngine.handleResponse, up to its await.  R holds what the call can
   change: the tracker, currentAttempts, the acknowledged attempts and the two
   storages.  answered is FALSE when the answer or the reasoning is missing, and
   the call returns after showFeedback. *)
handleResponseBegin(R, answered) ==
    IF ~answered THEN R ELSE [R EXCEPT !.currentAttempts = @ + 1]

(* LearningEngine.handleResponse, from its await on: validateResponse has awaited
   the validator and goes on to call evaluateConfidence, which the class does not
   define.  supplied is FALSE when that call is a TypeError, which rejects the
   promise handleResponse awaits and ends it, and TRUE when the method is supplied
   from elsewhere: validateResponse then returns attempts: this.currentAttempts as
   it is by then, and processValidationResult runs (handled as in
   ProcessValidationResult). *)
handleResponseResume(R, unit, answered, response, supplied, handled, t) ==
    IF ~answered \/ ~supplied THEN R
    ELSE LET validation == [response EXCEPT !.attempts = R.currentAttempts]
             T == processValidationResult(R.T, unit, validation, t)
         IN  IF handled
             THEN [R EXCEPT !.T = T,
                            !.acknowledged = Append(@, T.ah[Len(T.ah)]),
                            !.sessionStorage = saveCurrentUnit(@, unit),
                            !.localStorage = saveUserProfile(@)]
             ELSE [R EXCEPT !.T = T]

----------------------------------------------------------------------------
(* JavaScript strings.  A text is a TLA+ string and a character a string of
   length one; the texts of the model hold no line terminators. *)

charAt(text, i) == SubSeq(text, i, i)

UpperCase == "ABCDEFGHIJKLMNOPQRSTUVWXYZ"
LowerCase == "abcdefghijklmnopqrstuvwxyz"
Digits == "0123456789"
Whitespace == {" ", "\t"}

(* String.prototype.includes, for a pattern that is not empty *)
includes(text, pattern) ==
    \E i \in 1..(Len(text) - Len(pattern) + 1) :
        SubSeq(text, i, i + Len(pattern) - 1) = pattern

(* character by character; the text is halved to keep the recursion shallow *)
RECURSIVE toLowerCase(_)
toLowerCase(text) ==
    IF text = "" THEN ""
    ELSE IF Len(text) = 1
    THEN (IF includes(UpperCase, text)
          THEN charAt(LowerCase, CHOOSE i \in 1..Len(UpperCase) : charAt(UpperCase, i) = text)
          ELSE text)
    ELSE toLowerCase(SubSeq(text, 1, Len(text) \div 2))
         \o toLowerCase(SubSeq(text, Len(text) \div 2 + 1, Len(text)))

RECURSIVE trimStart(_)
trimStart(text) ==
    IF text # "" /\ Head(text) \in Whitespace THEN trimStart(Tail(text)) ELSE text

RECURSIVE trimEnd(_)
trimEnd(text) ==
    IF text # "" /\ charAt(text, Len(text)) \in Whitespace
    THEN trimEnd(SubSeq(text, 1, Len(text) - 1)) ELSE text

trim(text) == trimEnd(trimStart(text))

(* how many of the patterns the text includes *)
countIncluded(text, patterns) ==
    Cardinality({ i \in 1..Len(patterns) : includes(text, patterns[i]) })

(* \w of a regular expression *)
isWordChar(ch) == includes(LowerCase, ch) \/ includes(UpperCase, ch)
                  \/ includes(Digits, ch) \/ ch = "_"

(* a position where a word starts, and one where a word ends *)
wordStartsAt(text, i) ==
    isWordChar(charAt(text, i)) /\ (i = 1 \/ ~isWordChar(charAt(text, i - 1)))
wordEndsAt(text, i) ==
    isWordChar(charAt(text, i)) /\ (i = Len(text) \/ ~isWordChar(charAt(text, i + 1)))

(* the word that starts at position i *)
wordAt(text, i) ==
    SubSeq(text, i, CHOOSE e \in i..Len(text) :
                        /\ wordEndsAt(text, e)
                        /\ \A k \in i..(e - 1) : ~wordEndsAt(text, k))

(* text.match(/\b\w+\b/g) || []: the words of the text, from left to right *)
matchWords(text) ==
    LET starts == { i \in 1..Len(text) : wordStartsAt(text, i) }
    IN  [n \in 1..Cardinality(starts) |->
            wordAt(text, CHOOSE i \in starts :
                             Cardinality({ j \in starts : j < i }) = n - 1)]

(* /\b(w1|w2|...)\b/.test(text) *)
hasWord(text, words) ==
    \E i \in 1..Len(text) : wordStartsAt(text, i) /\ wordAt(text, i) \in words

(* reasoning.split(/[.!?]+/).filter(s => s.trim().length > 0).length: the pieces
   between two sentence marks, or between a mark and an end of the text, that
   hold more than blanks *)
countSentences(text) ==
    LET marks == { i \in 1..Len(text) : charAt(text, i) \in {".", "!", "?"} }
                 \cup {0, Len(text) + 1}
    IN  Cardinality({ piece \in marks \X marks :
                        /\ piece[1] < piece[2]
                        /\ \A m \in marks : ~(piece[1] < m /\ m < piece[2])
                        /\ \E k \in (piece[1] + 1)..(piece[2] - 1) :
                              charAt(text, k) \notin Whitespace })

(* text.split(' ').length *)
splitOnSpaces(text) ==
    Cardinality({ i \in 1..Len(text) : charAt(text, i) = " " }) + 1

----------------------------------------------------------------------------
(* JustificationValidator: configuration *)

Criteria == <<"clarity", "logic", "evidence", "completeness", "relevance">>

validationCriteria ==
    [clarity |-> Rat(70, 100), logic |-> Rat(80, 100), evidence |-> Rat(60, 100),
     completeness |-> Rat(70, 100), relevance |-> Rat(80, 100)]

PatternTypes == <<"causal", "evidence", "logical", "conditional", "comparison">>

reasoningPatterns ==
    [causal      |-> <<"because", "due to", "caused by", "results in", "leads to">>,
     evidence    |-> <<"shows", "demonstrates", "proves", "indicates", "supports">>,
     logical     |-> <<"therefore", "thus", "consequently", "hence", "so">>,
     conditional |-> <<"if", "when", "unless", "provided that", "assuming">>,
     comparison  |-> <<"similar to", "different from", "unlike", "whereas",
                       "compared to">>]

qualityIndicators ==
    [depth |-> <<"analyze", "examine", "consider", "evaluate", "interpret">>]

(* commonFlaws: which of the four patterns match the text.
   circular, /\b(\w+).*\bbecause.*\1\b/i: the group starts a word; "because"
   starts a word after the group; the group's text comes once more after that,
   and ends where a word ends.
   unsupported, /\b(always|never|all|none)\b/i.
   emotional, /\b(obviously|clearly|definitely)\b.*\bwithout\b.*\brevidence\b/i.
   informal, /\b(like|kinda|sorta|whatever)\b/i. *)
commonFlaws(text) ==
    [circular |->
        \E p \in 1..Len(text) :
            /\ wordStartsAt(text, p)
            /\ \E q \in p..Len(text) :
                 /\ \A k \in p..q : isWordChar(charAt(text, k))
                 /\ \E b \in (q + 1)..Len(text) :
                      /\ wordStartsAt(text, b)
                      /\ b + 6 <= Len(text)
                      /\ SubSeq(text, b, b + 6) = "because"
                      /\ \E e \in (b + 7 + q - p)..Len(text) :
                           /\ wordEndsAt(text, e)
                           /\ SubSeq(text, e - (q - p), e) = SubSeq(text, p, q),
     unsupported |-> hasWord(text, {"always", "never", "all", "none"}),
     emotional |->
        LET inOrder(words) ==
                \E i, j, k \in 1..Len(words) :
                    /\ i < j /\ j < k
                    /\ words[i] \in {"obviously", "clearly", "definitely"}
                    /\ words[j] = "without"
                    /\ words[k] = "revidence"
        IN  inOrder(matchWords(text)),
     informal |-> hasWord(text, {"like", "kinda", "sorta", "whatever"})]

----------------------------------------------------------------------------
(* JustificationValidator: utility methods.  A score is an exact rational. *)

RMin(a, b) == IF RGeq(a, b) THEN b ELSE a
(* Math.max(0, Math.min(1, score)) *)
clamp(score) == RMax(Zero, RMin(One, score))

hasValidPremiseConclusion(reasoning) ==
    LET text == toLowerCase(reasoning) IN
    /\ countIncluded(text, <<"given", "since", "because", "assuming">>) > 0
    /\ countIncluded(text, <<"therefore", "thus", "so", "hence", "consequently">>) > 0

hasSequentialReasoning(reasoning) ==
    countIncluded(toLowerCase(reasoning),
                  <<"first", "next", "then", "finally", "step">>) >= 2

(* the number of fallacies found *)
detectLogicalFallacies(reasoning) ==
    LET text == toLowerCase(reasoning)
        flag(found) == IF found THEN 1 ELSE 0
        matching(flaws) == flag(flaws.circular) + flag(flaws.unsupported)
                           + flag(flaws.emotional) + flag(flaws.informal)
    IN  matching(commonFlaws(text))
        + flag(includes(text, "people say") \/ includes(text, "everyone thinks"))
        + flag(includes(text, "either") /\ includes(text, "or")
               /\ ~includes(text, "could be"))

(* the number of the question's concepts the reasoning mentions *)
identifyRelevantConcepts(reasoning, question) ==
    Cardinality({ i \in 1..Len(question.requiredConcepts) :
                    includes(toLowerCase(reasoning),
                             toLowerCase(question.requiredConcepts[i])) })

(* the number of unsupported claims found *)
detectUnsupportedClaims(reasoning) ==
    LET text == toLowerCase(reasoning) IN
    (IF includes(text, "always") /\ ~includes(text, "because") THEN 1 ELSE 0)
    + (IF includes(text, "never") /\ ~includes(text, "because") THEN 1 ELSE 0)

getRequiredReasoningElements(question) ==
    IF question.type = "problem-solving"
    THEN <<"method-selection", "step-explanation", "answer-verification">>
    ELSE IF question.type = "concept-explanation"
    THEN <<"definition", "examples", "applications">>
    ELSE IF question.type = "analysis"
    THEN <<"evidence-evaluation", "conclusion-drawing", "alternative-consideration">>
    ELSE <<>>

getElementKeywords(element) ==
    CASE element = "method-selection" -> <<"method", "approach", "way", "technique">>
      [] element = "step-explanation" -> <<"first", "next", "then", "step">>
      [] element = "answer-verification" -> <<"check", "verify", "confirm", "test">>
      [] element = "definition" -> <<"means", "is", "defined as", "refers to">>
      [] element = "examples" -> <<"example", "instance", "case", "such as">>
      [] element = "applications" -> <<"used", "applied", "applies to", "useful">>
      [] element = "evidence-evaluation" -> <<"evidence", "shows", "proves", "indicates">>
      [] element = "conclusion-drawing" -> <<"conclude", "therefore", "thus", "result">>
      [] element = "alternative-consideration" ->
             <<"alternatively", "could be", "might", "possible">>
      [] OTHER -> <<>>

(* the number of required elements the reasoning addresses *)
findAddressedElements(reasoning, requiredElements) ==
    Cardinality({ i \in 1..Len(requiredElements) :
                    countIncluded(toLowerCase(reasoning),
                                  getElementKeywords(requiredElements[i])) > 0 })

assessReasoningDepth(reasoning) ==
    LET text == toLowerCase(reasoning) IN
    RMin(One,
         RAdd(Rat(20 * countIncluded(text, qualityIndicators.depth), 100),
              RAdd(IF includes(text, "because") /\ includes(text, "therefore")
                   THEN Rat(10, 100) ELSE Zero,
                   IF includes(text, "compared to") \/ includes(text, "different from")
                   THEN Rat(10, 100) ELSE Zero)))

extractKeywords(text) ==
    SelectSeq(matchWords(toLowerCase(text)),
              LAMBDA word : /\ Len(word) > 3
                            /\ word \notin {"the", "is", "at", "which", "on", "a",
                                            "an", "and", "or", "but"})

calculateKeywordOverlap(keywords1, keywords2) ==
    LET overlap == SelectSeq(keywords1,
                             LAMBDA keyword : \E i \in 1..Len(keywords2) :
                                                 keywords2[i] = keyword)
        total == IF Len(keywords1) > Len(keywords2) THEN Len(keywords1)
                 ELSE Len(keywords2)
    IN  IF total > 0 THEN Rat(Len(overlap), total) ELSE Zero

(* an answer is [isNumber, value]: typeof answer === 'number' is its isNumber *)
assessAnswerSupport(reasoning, answer) ==
    LET text == toLowerCase(reasoning) IN
    IF answer.isNumber
    THEN RAdd(IF \E i \in 1..Len(text) : includes(Digits, charAt(text, i))
              THEN Half ELSE Zero,
              IF countIncluded(text, <<"calculate", "compute", "multiply", "divide",
                                       "add", "subtract">>) > 0
              THEN Half ELSE Zero)
    ELSE Half

(* 1 when the text holds "but" or "however", else 0 *)
detectContradictions(reasoning) ==
    IF includes(toLowerCase(reasoning), "but") \/ includes(toLowerCase(reasoning), "however")
    THEN 1 ELSE 0

----------------------------------------------------------------------------
(* JustificationValidator: the six assessments *)

assessClarity(reasoning) ==
    LET text == toLowerCase(reasoning)
        wordCount == splitOnSpaces(text)
        clear == countIncluded(text, <<"first", "next", "then", "finally", "in summary">>)
        unclear == countIncluded(text, <<"this thing", "that stuff", "it", "something">>)
    IN  clamp(RAdd(RAdd(Half,
                        IF countSentences(reasoning) > 1 THEN Rat(10, 100) ELSE Zero),
                   RAdd(Rat(5 * clear - 5 * unclear, 100),
                        IF wordCount >= 15 /\ wordCount <= 100 THEN Rat(10, 100)
                        ELSE IF wordCount < 10 THEN Rat(-20, 100)
                        ELSE IF wordCount > 150 THEN Rat(-10, 100)
                        ELSE Zero)))

assessInherentQuality(reasoning) ==
    RAdd(RMul(assessClarity(reasoning), Half),
         RAdd(IF hasValidPremiseConclusion(reasoning) THEN Rat(30, 100) ELSE Zero,
              RMul(assessReasoningDepth(reasoning), Rat(20, 100))))

assessLogicalStructure(reasoning, question) ==
    LET text == toLowerCase(reasoning) IN
    clamp(RSub(RAdd(RAdd(Rat(30, 100),
                         RSum([i \in 1..Len(PatternTypes) |->
                                 RMin(Rat(10 * countIncluded(text,
                                               reasoningPatterns[PatternTypes[i]]), 100),
                                      Rat(30, 100))])),
                    RAdd(IF hasValidPremiseConclusion(reasoning) THEN Rat(20, 100) ELSE Zero,
                         IF hasSequentialReasoning(reasoning) THEN Rat(15, 100) ELSE Zero)),
               Rat(10 * detectLogicalFallacies(reasoning), 100)))

assessEvidence(reasoning, question) ==
    LET text == toLowerCase(reasoning)
        indicators == countIncluded(text, reasoningPatterns.evidence)
        examples == countIncluded(text, <<"example", "instance", "case", "such as">>)
        numbers == IF \E i \in 1..Len(text) : includes(Digits, charAt(text, i))
                   THEN 1 ELSE 0
    IN  clamp(RSub(RAdd(RAdd(Rat(30, 100),
                             Rat(10 * (indicators + examples + numbers), 100)),
                        RMin(Rat(5 * identifyRelevantConcepts(reasoning, question), 100),
                             Rat(20, 100))),
                   Rat(5 * detectUnsupportedClaims(reasoning), 100)))

assessCompleteness(reasoning, question) ==
    LET requiredElements == getRequiredReasoningElements(question) IN
    clamp(RAdd(RAdd(Rat(40, 100),
                    IF Len(requiredElements) > 0
                    THEN RMul(Rat(findAddressedElements(reasoning, requiredElements),
                                  Len(requiredElements)),
                              Rat(40, 100))
                    ELSE Zero),
               RMul(assessReasoningDepth(reasoning), Rat(20, 100))))

assessRelevance(reasoning, question, answer) ==
    clamp(RAdd(RAdd(Half,
                    RMul(calculateKeywordOverlap(extractKeywords(question.text),
                                                 extractKeywords(reasoning)),
                         Rat(30, 100))),
               RMul(assessAnswerSupport(reasoning, answer), Rat(20, 100))))

assessConsistency(reasoning, answer, isCorrect) ==
    LET adjust(reasoningQuality) ==
            IF isCorrect /\ RLt(Rat(70, 100), reasoningQuality) THEN Rat(20, 100)
            ELSE IF ~isCorrect /\ RLt(reasoningQuality, Rat(40, 100)) THEN Rat(10, 100)
            ELSE IF isCorrect /\ RLt(reasoningQuality, Rat(40, 100)) THEN Rat(-30, 100)
            ELSE IF ~isCorrect /\ RLt(Rat(70, 100), reasoningQuality) THEN Rat(15, 100)
            ELSE Zero
    IN  clamp(RAdd(Rat(60 - 10 * detectContradictions(reasoning), 100),
                   adjust(assessInherentQuality(reasoning))))

----------------------------------------------------------------------------
(* JustificationValidator.validate *)

calculateOverallScore(analysis) ==
    RSum(<< RMul(analysis.clarity, Rat(20, 100)),
            RMul(analysis.logic, Rat(25, 100)),
            RMul(analysis.evidence, Rat(20, 100)),
            RMul(analysis.completeness, Rat(15, 100)),
            RMul(analysis.relevance, Rat(10, 100)),
            RMul(analysis.consistency, Rat(10, 100)) >>)

(* Object.entries(this.validationCriteria).every(...) *)
meetsValidationThreshold(analysis) ==
    \A i \in 1..Len(Criteria) :
        RGeq(analysis[Criteria[i]], validationCriteria[Criteria[i]])

(* feedback.improvementAreas of generateDetailedFeedback, which validate returns
   as areas; the messages and suggestions are left out *)
improvementAreas(analysis) ==
    SelectSeq(Criteria, LAMBDA criterion :
                  RLt(analysis[criterion], validationCriteria[criterion]))

(* a JavaScript value that is a string, and the value undefined *)
Text(s) == [defined |-> TRUE, value |-> s]
NoText == [defined |-> FALSE, value |-> ""]

(* undefined as a question: practiceQuestions[i] for an index without a question *)
NoQuestion == [type |-> "undefined", text |-> "", requiredConcepts |-> <<>>]

NoAnalysis == [clarity |-> Zero, logic |-> Zero, evidence |-> Zero,
               completeness |-> Zero, relevance |-> Zero, consistency |-> Zero]

analyse(reasoning, question, answer, isCorrect) ==
    [clarity      |-> assessClarity(reasoning),
     logic        |-> assessLogicalStructure(reasoning, question),
     evidence     |-> assessEvidence(reasoning, question),
     completeness |-> assessCompleteness(reasoning, question),
     relevance    |-> assessRelevance(reasoning, question, answer),
     consistency  |-> assessConsistency(reasoning, answer, isCorrect)]

(* the object validate returns for an analysis *)
validated(analysis) ==
    [threw |-> FALSE, analysed |-> TRUE,
     isValid |-> meetsValidationThreshold(analysis),
     score |-> calculateOverallScore(analysis),
     areas |-> improvementAreas(analysis),
     analysis |-> analysis]

(* the promise is rejected: assessEvidence reads question.requiredConcepts of
   undefined *)
rejected ==
    [threw |-> TRUE, analysed |-> FALSE, isValid |-> FALSE, score |-> Zero,
     areas |-> <<>>, analysis |-> NoAnalysis]

(* a validator that scores a short text like any other *)
validateWithoutLengthCheck(reasoning, question, answer, isCorrect) ==
    IF ~reasoning.defined \/ question = NoQuestion THEN rejected
    ELSE validated(analyse(reasoning.value, question, answer, isCorrect))

(* !reasoning holds for undefined, null and the empty string *)
validate(reasoning, question, answer, isCorrect) ==
    IF ~reasoning.defined \/ reasoning.value = "" \/ Len(trim(reasoning.value)) < 5
    THEN [threw |-> FALSE, analysed |-> FALSE, isValid |-> FALSE, score |-> Zero,
          areas |-> <<"completeness">>, analysis |-> NoAnalysis]
    ELSE IF question = NoQuestion THEN rejected
    ELSE validated(analyse(reasoning.value, question, answer, isCorrect))

----------------------------------------------------------------------------
(* Inputs *)

Concepts == {"problem-solving-basics", "logical-reasoning"}
Contexts == {"practice", "assessment"}
ReasoningScores == {40, 90}         \* hundredths
AttemptsUsed == {1}
TimesSpent == {10000}               \* ms
TickAmounts == {2 * HOUR, 25 * HOUR}
ConceptLists == { <<"problem-solving-basics", "logical-reasoning">>,
                  <<"logical-reasoning">> }
Profiles == { [id |-> "u1", level |-> 2, lastLearningSession |-> NoTime] }
TargetLevels == 2..5
ChallengeDraws ==
    { [accuracy |-> Rat(90, 100), reasoning |-> Rat(90, 100), application |-> Rat(90, 100)],
      [accuracy |-> Rat(70, 100), reasoning |-> Rat(90, 100), application |-> Rat(90, 100)] }

NoProfile == [id |-> "", level |-> 0, lastLearningSession |-> NoTime]

(* learners whose last learning session is unknown, or was at hour 1 *)
SessionProfiles ==
    Profiles \cup { [id |-> "u1", level |-> 2, lastLearningSession |-> 1 * HOUR] }

(* evidence records applyStrictCriteria is called with *)
Evidences ==
    [accuracy : {Rat(80, 100), Rat(90, 100)}, consistency : {Rat(90, 100)},
     retention : {Rat(85, 100)}, application : {Rat(80, 100)}, reasoning : {Rat(85, 100)},
     totalAttempts : {2, 3, 10}, totalTimeSpent : {200000, 300000, 450000, 600000}]

(* the ids ConceptDatabase.initializeDatabase adds *)
ConceptCatalog ==
    {"basic-arithmetic", "algebra-basics", "systems-of-equations", "force-and-motion",
     "energy-conservation", "depreciation-straight-line", "depreciation-accelerated",
     "variables-and-data-types", "control-flow", "atomic-structure", "chemical-bonding"}

(* JustificationValidator.validate is called with these *)
Reasonings ==
    { NoText,
      Text(""),
      Text("     "),
      Text("  add \t"),
      Text("I add"),
      Text("given 120 km in 2 hours the method shows speed thus i calculate 60"),
      Text("First, given 120 km in 2 hours, the method shows speed. Next I calculate 120 / 2, thus the average speed is 60. Then a check proves 60 when I add."),
      Text("First, the method shows speed: 120 km in 2 hours. Next I calculate 120 / 2, but the average speed is thus 60. Then a check proves 60 when I add.") }
Questions ==
    { NoQuestion,
      [type |-> "problem-solving",
       text |-> "Given 120 km in 2 hours, first calculate the average speed, then check the method.",
       requiredConcepts |-> <<"speed", "distance">>],
      [type |-> "analysis", text |-> "", requiredConcepts |-> <<>>] }
Answers == { [isNumber |-> TRUE, value |-> "60"], [isNumber |-> FALSE, value |-> "sixty"] }

(* Learning histories the gate is evaluated after: each is a list of recordAttempt
   calls, gap hours after the call before *)
Study(concept, gap) ==
    [gap |-> gap, concept |-> concept, isCorrect |-> TRUE, attempts |-> 1,
     timeSpent |-> 10000, score |-> 90, context |-> "assessment"]

Mastering(concept) ==
    << Study(concept, 0), Study(concept, 2 * HOUR), Study(concept, 25 * HOUR) >>

GateScenarios ==
    { <<>>,
      Mastering("logical-reasoning"),
      Mastering("problem-solving-basics") \o Mastering("logical-reasoning") }

RECURSIVE RunScenario(_, _, _)
RunScenario(steps, T, t) ==
    IF steps = <<>> THEN [T |-> T, t |-> t]
    ELSE LET a == Head(steps) IN
         RunScenario(Tail(steps),
                     recordAttempt(T, a.concept, a.isCorrect, a.attempts, a.timeSpent,
                                   a.score, a.context, t + a.gap),
                     t + a.gap)

----------------------------------------------------------------------------
(* Initial states *)

SetTracker(T) ==
    /\ attemptHistory' = T.ah
    /\ conceptProgress' = T.cp
    /\ masteryHistory' = T.mh
    /\ spacedRepetition' = T.sr

SetGate(G) ==
    /\ progressionHistory' = G.ph
    /\ blockedAttempts' = G.ba

NoEval == [called |-> FALSE, learnerId |-> "", level |-> 0, targetLevel |-> 0,
           at |-> NoTime, canProgress |-> FALSE, reason |-> "", blockers |-> <<>>,
           threw |-> FALSE, steps |-> <<>>, challengePassed |-> FALSE]

NoEvidence == [accuracy |-> Zero, consistency |-> Zero, retention |-> Zero,
               application |-> Zero, reasoning |-> Zero,
               totalAttempts |-> 0, totalTimeSpent |-> 0]

NoStep == [method |-> "", learner |-> NoProfile, targetLevel |-> 0,
           evidence |-> NoEvidence, at |-> NoTime, threw |-> FALSE, passed |-> FALSE]

NoCall == [reasoning |-> NoText, question |-> NoQuestion,
           answer |-> [isNumber |-> FALSE, value |-> ""], isCorrect |-> FALSE]
NoValidation == [called |-> FALSE, result |-> [rejected EXCEPT !.threw = FALSE]]

(* new objects, nothing recorded, no unit *)
SetNew ==
    /\ attemptHistory = <<>>
    /\ conceptProgress = EmptyMap
    /\ masteryHistory = EmptyMap
    /\ spacedRepetition = EmptyMap
    /\ progressionHistory = EmptyMap
    /\ blockedAttempts = EmptyMap
    /\ lastEval = NoEval
    /\ lastStep = NoStep
    /\ evals = 0
    /\ currentUnit = NoUnit
    /\ currentPhase = "introduction"
    /\ localStorage = EmptyMap
    /\ sessionStorage = EmptyMap
    /\ acknowledged = <<>>
    /\ reloads = 0
    /\ currentAttempts = 0
    /\ submissions = 0

(* after new MasteryTracker() and new ProgressionGate() *)
Init ==
    /\ now = 0
    /\ ticks = 0
    /\ attemptHistory = <<>>
    /\ conceptProgress = EmptyMap
    /\ masteryHistory = EmptyMap
    /\ spacedRepetition = EmptyMap
    /\ progressionHistory = EmptyMap
    /\ blockedAttempts = EmptyMap
    /\ lastEval = NoEval
    /\ lastStep = NoStep
    /\ evals = 0
    /\ currentUnit = NoUnit
    /\ currentPhase = "introduction"
    /\ localStorage = EmptyMap
    /\ sessionStorage = EmptyMap
    /\ acknowledged = <<>>
    /\ reloads = 0
    /\ currentAttempts = 0
    /\ submissions = 0
    /\ validateCall = NoCall
    /\ reasoningValidation = NoValidation

(* a new gate, and a tracker that has recorded one of the learning histories *)
GateInit ==
    \E s \in GateScenarios :
        LET start(r) ==
        /\ now = r.t
        /\ ticks = 0
        /\ attemptHistory = r.T.ah
        /\ conceptProgress = r.T.cp
        /\ masteryHistory = r.T.mh
        /\ spacedRepetition = r.T.sr
        /\ progressionHistory = EmptyMap
        /\ blockedAttempts = EmptyMap
        /\ lastEval = NoEval
        /\ lastStep = NoStep
        /\ evals = 0
        /\ currentUnit = NoUnit
        /\ currentPhase = "introduction"
        /\ localStorage = EmptyMap
        /\ sessionStorage = EmptyMap
        /\ acknowledged = <<>>
        /\ reloads = 0
        /\ currentAttempts = 0
        /\ submissions = 0
        /\ validateCall = NoCall
        /\ reasoningValidation = NoValidation
        IN  start(RunScenario(s, NewTracker, 0))

(* after new LearningEngine() and initializeEngine(): a unit was generated and saved *)
EngineInit ==
    \E c \in Concepts :
        /\ now = 0
        /\ ticks = 0
        /\ attemptHistory = <<>>
        /\ conceptProgress = EmptyMap
        /\ masteryHistory = EmptyMap
        /\ spacedRepetition = EmptyMap
        /\ progressionHistory = EmptyMap
        /\ blockedAttempts = EmptyMap
        /\ lastEval = NoEval
        /\ lastStep = NoStep
        /\ evals = 0
        /\ currentUnit = generateNewUnit(c)
        /\ currentPhase = "introduction"
        /\ localStorage = EmptyMap
        /\ sessionStorage = saveCurrentUnit(EmptyMap, generateNewUnit(c))
        /\ acknowledged = <<>>
        /\ reloads = 0
        /\ currentAttempts = 0
        /\ submissions = 0
        /\ validateCall = NoCall
        /\ reasoningValidation = NoValidation

(* a validator, and the arguments of the call that is about to be made *)
ValidatorInit ==
    /\ now = 0
    /\ ticks = 0
    /\ SetNew
    /\ validateCall \in [reasoning : Reasonings, question : Questions,
                         answer : Answers, isCorrect : BOOLEAN]
    /\ reasoningValidation = NoValidation

----------------------------------------------------------------------------
(* Actions *)

WithinCaps(T) == \A c \in DOMAIN T.mh : Len(T.mh[c]) <= MaxAchievements

(* what a query leaves behind is the tracker's new state *)
StoreTracker(T) == WithinCaps(T) /\ SetTracker(T)

Tick(d) ==
    /\ ticks < MaxTicks
    /\ now' = now + d
    /\ ticks' = ticks + 1
    /\ UNCHANGED <<trackerVars, gateVars, engineVars, validatorVars>>

RecordAttempt(concept, isCorrect, attempts, timeSpent, reasoningScore, context) ==
    /\ Len(attemptHistory) < MaxAttempts
    /\ SetTracker(recordAttempt(Tracker, concept, isCorrect, attempts, timeSpent,
                                reasoningScore, context, now))
    /\ UNCHANGED <<now, ticks, gateVars, engineVars, validatorVars>>

(* masteryTracker.recordAttempt for an assessment question of one concept, in a
   history long enough to hold more than the five attempts the accuracy score
   looks at *)
RecordAssessmentAttempt(isCorrect) ==
    /\ Len(attemptHistory) < MaxHistory
    /\ SetTracker(recordAttempt(Tracker, "problem-solving-basics", isCorrect, 1, 10000,
                                90, "assessment", now))
    /\ UNCHANGED <<now, ticks, gateVars, engineVars, validatorVars>>

EvaluateMastery(concept) ==
    /\ StoreTracker(evaluateMastery(Tracker, concept, now).T)
    /\ UNCHANGED <<now, ticks, gateVars, engineVars, validatorVars>>

CanProgress(requiredConcepts) ==
    /\ StoreTracker(canProgress(Tracker, requiredConcepts, now).T)
    /\ UNCHANGED <<now, ticks, gateVars, engineVars, validatorVars>>

GetUnmasteredConcepts(concepts) ==
    /\ StoreTracker(getUnmasteredConcepts(Tracker, concepts, now).T)
    /\ UNCHANGED <<now, ticks, gateVars, engineVars, validatorVars>>

(* the call ends in a RangeError, StackDepth frames down *)
GetPerformanceAnalytics ==
    /\ StoreTracker(getPerformanceAnalytics(Tracker, now, StackDepth).T)
    /\ UNCHANGED <<now, ticks, gateVars, engineVars, validatorVars>>

(* the gate has returned r: its maps and the tracker are as it left them *)
Returned(learnerProfile, targetLevel, simulatedChallenge, r) ==
    /\ SetTracker(r.T)
    /\ SetGate(r.G)
    /\ lastEval' = [called |-> TRUE, learnerId |-> learnerProfile.id,
                    level |-> learnerProfile.level, targetLevel |-> targetLevel,
                    at |-> now, canProgress |-> r.evaluation.canProgress,
                    reason |-> r.evaluation.reason,
                    blockers |-> r.evaluation.blockers,
                    threw |-> r.threw, steps |-> r.steps,
                    challengePassed |-> performChallengeAssessment(simulatedChallenge)]

EvaluateProgression(learnerProfile, targetLevel, simulatedChallenge) ==
    /\ evals < MaxEvals
    /\ Returned(learnerProfile, targetLevel, simulatedChallenge,
                evaluateProgression(Gate, Tracker, learnerProfile, targetLevel, now,
                                    StackDepth, simulatedChallenge))
    /\ evals' = evals + 1
    /\ UNCHANGED <<now, ticks, lastStep, engineVars, validatorVars>>

(* gate.applyStrictCriteria(evidence), called while targetLevel is evaluated *)
ApplyStrictCriteria(evidence, targetLevel) ==
    /\ lastStep' = [NoStep EXCEPT !.method = "applyStrictCriteria",
                                  !.targetLevel = targetLevel, !.evidence = evidence,
                                  !.at = now, !.passed = applyStrictCriteria(evidence)]
    /\ UNCHANGED <<now, ticks, trackerVars, progressionHistory, blockedAttempts, lastEval,
                   evals, engineVars, validatorVars>>

(* the step has returned r, or thrown: the tracker is as it left it *)
StepReturned(method, learnerProfile, targetLevel, r) ==
    /\ StoreTracker(r.T)
    /\ lastStep' = [NoStep EXCEPT !.method = method, !.learner = learnerProfile,
                                  !.targetLevel = targetLevel, !.at = now,
                                  !.threw = r.threw, !.passed = r.passed]

(* gate.checkRetentionAndApplication(learnerProfile, masteryTracker) *)
CheckRetentionAndApplication(learnerProfile) ==
    /\ StepReturned("checkRetentionAndApplication", learnerProfile, 0,
                    checkRetentionAndApplication(Tracker, learnerProfile, now, StackDepth))
    /\ UNCHANGED <<now, ticks, progressionHistory, blockedAttempts, lastEval, evals,
                   engineVars, validatorVars>>

(* gate.performFinalGateEvaluation(learnerProfile, targetLevel, masteryTracker) *)
PerformFinalGateEvaluation(learnerProfile, targetLevel, simulatedChallenge) ==
    /\ StepReturned("performFinalGateEvaluation", learnerProfile, targetLevel,
                    performFinalGateEvaluation(Tracker, now, StackDepth, simulatedChallenge))
    /\ UNCHANGED <<now, ticks, progressionHistory, blockedAttempts, lastEval, evals,
                   engineVars, validatorVars>>

(* the feedback shown for the attempt the tracker recorded last *)
Acknowledge(T) ==
    /\ SetTracker(T)
    /\ acknowledged' = Append(acknowledged, T.ah[Len(T.ah)])

(* LearningEngine.processValidationResult: the attempt is recorded, then
   handleCorrectResponse or handleIncorrectResponse runs, then the unit and the
   profile are saved.  The two handlers call updateStreak, awardExperience,
   advanceToNextQuestion, markConceptAsWeak and unlockNextHint, which the class
   does not define: handled is FALSE when that call is a TypeError, which ends
   the method before the saves, and TRUE when the methods are supplied from
   elsewhere and the method runs to its end. *)
ProcessValidationResult(validation, handled) ==
    /\ currentUnit # NoUnit
    /\ Len(acknowledged) < MaxAttempts
    /\ Len(attemptHistory) < MaxAttempts
    /\ IF handled
       THEN /\ Acknowledge(processValidationResult(Tracker, currentUnit, validation, now))
            /\ sessionStorage' = saveCurrentUnit(sessionStorage, currentUnit)
            /\ localStorage' = saveUserProfile(localStorage)
       ELSE /\ SetTracker(processValidationResult(Tracker, currentUnit, validation, now))
            /\ UNCHANGED <<sessionStorage, localStorage, acknowledged>>
    /\ UNCHANGED <<now, ticks, gateVars, currentUnit, currentPhase, reloads,
                   currentAttempts, submissions, validatorVars>>

Engine == [currentPhase |-> currentPhase, currentUnit |-> currentUnit,
           sessionStorage |-> sessionStorage]

SetEngine(E) ==
    /\ currentPhase' = E.currentPhase
    /\ currentUnit' = E.currentUnit
    /\ sessionStorage' = E.sessionStorage

(* the button of the introduction's preview: learningEngine.transitionToPhase('learning') *)
BeginLearningJourney(supplied) ==
    /\ currentUnit # NoUnit
    /\ currentPhase = "introduction"
    /\ SetEngine(transitionToPhase(Engine, "learning", supplied))
    /\ UNCHANGED <<now, ticks, trackerVars, gateVars, localStorage, acknowledged, reloads,
                   currentAttempts, submissions,
                   validatorVars>>

(* window.debugLearningSystem.skipToAssessment(), the confirm dialog accepted *)
SkipToAssessment(supplied) ==
    /\ currentUnit # NoUnit
    /\ SetEngine(transitionToPhase(Engine, "assessment", supplied))
    /\ UNCHANGED <<now, ticks, trackerVars, gateVars, localStorage, acknowledged, reloads,
                   currentAttempts, submissions,
                   validatorVars>>

(* the page is loaded again: beforeunload saves the unit and the profile, then the
   constructor builds a new tracker and a new gate, loadCurrentUnit reads the
   unit back and startLearningSession begins with the introduction *)
Reload ==
    /\ currentUnit # NoUnit
    /\ reloads < MaxReloads
    /\ reloads' = reloads + 1
    /\ currentAttempts' = 0
    /\ submissions' = 0
    /\ localStorage' = saveUserProfile(localStorage)
    /\ LET saved == saveCurrentUnit(sessionStorage, currentUnit)
       IN  SetEngine(startLearningSession([currentPhase |-> "introduction",
                                           currentUnit |-> saved["currentUnit"],
                                           sessionStorage |-> saved]))
    /\ SetTracker(NewTracker)
    /\ SetGate(NewGate)
    /\ UNCHANGED <<now, ticks, lastEval, evals, lastStep, acknowledged, validatorVars>>

(* what a call of handleResponse can change *)
Responder == [T |-> Tracker, currentAttempts |-> currentAttempts,
              acknowledged |-> acknowledged, sessionStorage |-> sessionStorage,
              localStorage |-> localStorage]

SetResponder(R) ==
    /\ SetTracker(R.T)
    /\ currentAttempts' = R.currentAttempts
    /\ acknowledged' = R.acknowledged
    /\ sessionStorage' = R.sessionStorage
    /\ localStorage' = R.localStorage

(* a click on #submit-response: the one listener of setupEventListeners calls
   handleResponse, whose awaits are settled before the next event is handled *)
ClickSubmit(answered, response, supplied, handled) ==
    /\ currentUnit # NoUnit
    /\ submissions < MaxSubmits
    /\ Len(attemptHistory) < MaxAttempts
    /\ submissions' = IF answered THEN submissions + 1 ELSE submissions
    /\ SetResponder(handleResponseResume(handleResponseBegin(Responder, answered),
                                         currentUnit, answered, response, supplied,
                                         handled, now))
    /\ UNCHANGED <<now, ticks, gateVars, currentUnit, currentPhase, reloads, validatorVars>>

(* one Ctrl+Enter keypress: document has two keydown listeners that react to it,
   the one setupEventListeners adds and the global one of the page script.  Both
   call handleResponse; each call runs up to its await while the event is
   dispatched, and the two go on, in that order, when the dispatch is over *)
CtrlEnterSubmit(answered, response, supplied, handled) ==
    /\ currentUnit # NoUnit
    /\ submissions < MaxSubmits
    /\ Len(attemptHistory) + 1 < MaxAttempts
    /\ submissions' = IF answered THEN submissions + 1 ELSE submissions
    /\ LET begun == handleResponseBegin(handleResponseBegin(Responder, answered), answered)
           first == handleResponseResume(begun, currentUnit, answered, response,
                                         supplied, handled, now)
       IN  SetResponder(handleResponseResume(first, currentUnit, answered, response,
                                             supplied, handled, now))
    /\ UNCHANGED <<now, ticks, gateVars, currentUnit, currentPhase, reloads, validatorVars>>

(* await justificationValidator.validate(reasoning, question, answer, isCorrect) *)
Validate ==
    /\ ~reasoningValidation.called
    /\ reasoningValidation' = [called |-> TRUE,
                      result |-> validate(validateCall.reasoning, validateCall.question,
                                          validateCall.answer, validateCall.isCorrect)]
    /\ UNCHANGED <<now, ticks, trackerVars, gateVars, engineVars, validateCall>>

----------------------------------------------------------------------------
(* Specifications *)

(* the tracker's interface *)
Next ==
    \/ \E d \in TickAmounts : Tick(d)
    \/ \E c \in Concepts, ok \in BOOLEAN, u \in AttemptsUsed, ts \in TimesSpent,
          rs \in ReasoningScores, ctx \in Contexts : RecordAttempt(c, ok, u, ts, rs, ctx)
    \/ \E c \in Concepts : EvaluateMastery(c)
    \/ \E cs \in ConceptLists : CanProgress(cs)
    \/ \E cs \in ConceptLists : GetUnmasteredConcepts(cs)
    \/ GetPerformanceAnalytics

Spec == Init /\ [][Next]_vars

(* the gate, evaluated against a tracker with a learning history *)
GateNext ==
    \/ ticks < MaxGateTicks /\ Tick(25 * HOUR)
    \/ \E p \in Profiles, l \in TargetLevels, ch \in ChallengeDraws :
          EvaluateProgression(p, l, ch)

GateSpec == GateInit /\ [][GateNext]_vars

(* the gate's steps, called one by one against a tracker with a learning history *)
GateStepsNext ==
    \/ \E d \in TickAmounts : Tick(d)
    \/ \E e \in Evidences, l \in TargetLevels : ApplyStrictCriteria(e, l)
    \/ \E p \in SessionProfiles : CheckRetentionAndApplication(p)
    \/ \E p \in Profiles, l \in TargetLevels, ch \in ChallengeDraws :
          PerformFinalGateEvaluation(p, l, ch)

GateStepsSpec == GateInit /\ [][GateStepsNext]_vars

(* the engine's attempt handling and the page's life cycle *)
EngineNext ==
    \/ \E d \in TickAmounts : Tick(d)
    \/ \E ok \in BOOLEAN, u \in AttemptsUsed, ts \in TimesSpent, rs \in ReasoningScores,
          handled \in BOOLEAN :
          ProcessValidationResult([isCorrect |-> ok, attempts |-> u, timeSpent |-> ts,
                                   score |-> rs], handled)
    \/ Reload

EngineSpec == EngineInit /\ [][EngineNext]_vars

(* one concept, assessed over and over *)
HistoryNext ==
    \/ \E d \in TickAmounts : Tick(d)
    \/ \E ok \in BOOLEAN : RecordAssessmentAttempt(ok)

HistorySpec == Init /\ [][HistoryNext]_vars

(* the learner submits responses to the question on the page *)
SubmitNext ==
    \/ \E d \in TickAmounts : Tick(d)
    \/ \E answered \in BOOLEAN, ok \in BOOLEAN, ts \in TimesSpent, rs \in ReasoningScores,
          supplied \in BOOLEAN, handled \in BOOLEAN :
          ClickSubmit(answered, [isCorrect |-> ok, attempts |-> 0, timeSpent |-> ts,
                                 score |-> rs], supplied, handled)
    \/ \E answered \in BOOLEAN, ok \in BOOLEAN, ts \in TimesSpent, rs \in ReasoningScores,
          supplied \in BOOLEAN, handled \in BOOLEAN :
          CtrlEnterSubmit(answered, [isCorrect |-> ok, attempts |-> 0, timeSpent |-> ts,
                                     score |-> rs], supplied, handled)

SubmitSpec == EngineInit /\ [][SubmitNext]_vars

(* the phases of a unit *)
SessionNext ==
    \/ \E d \in TickAmounts : Tick(d)
    \/ \E supplied \in BOOLEAN : BeginLearningJourney(supplied)
    \/ \E supplied \in BOOLEAN : SkipToAssessment(supplied)
    \/ Reload

SessionSpec == EngineInit /\ [][SessionNext]_vars

(* one call of the validator *)
ValidatorSpec == ValidatorInit /\ [][Validate]_vars

----------------------------------------------------------------------------
(* Properties of the tracker (Spec) *)

(* C1: masteryHistory holds at most one MasteryAchievement per concept, whatever
   sequence of recordAttempt, evaluateMastery, canProgress, getUnmasteredConcepts
   and getPerformanceAnalytics calls is made. *)
C1_AtMostOneAchievement ==
    \A c \in DOMAIN masteryHistory : Len(masteryHistory[c]) <= 1

AttemptsOf(c) == SelectSeq(attemptHistory, LAMBDA a : a.concept = c)

ThreeGoodPracticeAttempts(c) ==
    /\ Len(AttemptsOf(c)) = 3
    /\ \A i \in 1..3 : /\ AttemptsOf(c)[i].isCorrect
                       /\ AttemptsOf(c)[i].context = "practice"
                       /\ AttemptsOf(c)[i].reasoningScore >= 75

(* C7: a concept whose only attempts are three correct practice attempts with a
   reasoning score of at least 0.75 is mastered by the third recordAttempt: it has
   one achievement, with attemptsRequired = 3. *)
C7_ThreePracticeAttemptsMaster ==
    \A c \in Concepts :
        ThreeGoodPracticeAttempts(c) =>
            /\ c \in DOMAIN masteryHistory
            /\ \E i \in 1..Len(masteryHistory[c]) : masteryHistory[c][i].attemptsRequired = 3

TotalOf(cp, c) == IF c \in DOMAIN cp THEN cp[c].totalAttempts ELSE 0
CorrectOf(cp, c) == IF c \in DOMAIN cp THEN cp[c].correctAttempts ELSE 0

(* C10: a step that records an attempt raises the attempted concept's totalAttempts
   by one and its correctAttempts by one exactly when the attempt is correct, leaves
   the counters of every other concept as they were, and leaves correctAttempts at
   most totalAttempts for every concept. *)
C10_CountersFollowAttempts ==
    [][ Len(attemptHistory') = Len(attemptHistory) + 1 =>
          LET attempt == attemptHistory'[Len(attemptHistory')] IN
          /\ TotalOf(conceptProgress', attempt.concept)
                = TotalOf(conceptProgress, attempt.concept) + 1
          /\ CorrectOf(conceptProgress', attempt.concept)
                = CorrectOf(conceptProgress, attempt.concept)
                  + (IF attempt.isCorrect THEN 1 ELSE 0)
          /\ \A c \in Concepts \ {attempt.concept} :
                /\ TotalOf(conceptProgress', c) = TotalOf(conceptProgress, c)
                /\ CorrectOf(conceptProgress', c) = CorrectOf(conceptProgress, c)
          /\ \A c \in Concepts :
                CorrectOf(conceptProgress', c) <= TotalOf(conceptProgress', c)
      ]_vars

(* one concept with a correct and an incorrect attempt, and another concept that
   has been attempted as well *)
C10_Witness ==
    \E c, d \in Concepts :
        /\ c # d
        /\ TotalOf(conceptProgress, c) >= 2
        /\ CorrectOf(conceptProgress, c) >= 1
        /\ CorrectOf(conceptProgress, c) < TotalOf(conceptProgress, c)
        /\ TotalOf(conceptProgress, d) >= 1

----------------------------------------------------------------------------
(* Properties of the gate (GateSpec).  lastEval is what the last call of
   evaluateProgression was given and what it returned. *)

HistoryOf(learnerId) ==
    IF learnerId \in DOMAIN progressionHistory THEN progressionHistory[learnerId] ELSE <<>>

(* the record the last call wrote, and the records that were there before it *)
LastDecision == HistoryOf(lastEval.learnerId)[Len(HistoryOf(lastEval.learnerId))]
PriorDecisions ==
    SubSeq(HistoryOf(lastEval.learnerId), 1, Len(HistoryOf(lastEval.learnerId)) - 1)

RequiredConcepts(level) == getLevelRequirements(level).requiredConcepts

IsMastered(c) == evaluateMastery(Tracker, c, lastEval.at).result

SomeRequiredUnmastered ==
    \E i \in 1..Len(RequiredConcepts(lastEval.targetLevel)) :
        ~IsMastered(RequiredConcepts(lastEval.targetLevel)[i])

(* C2: a call for a target level of which some required concept is not mastered
   does not return canProgress = true and does not record ALLOW. *)
C2_NoAllowWhileUnmastered ==
    (lastEval.called /\ SomeRequiredUnmastered) =>
        /\ ~lastEval.canProgress
        /\ LastDecision.decision = "BLOCK"

(* an eligible call that reached the mastery step with one required concept
   mastered and the other one not *)
C2_Witness ==
    /\ lastEval.called
    /\ lastEval.steps = StepsToMastery
    /\ SomeRequiredUnmastered
    /\ \E i \in 1..Len(RequiredConcepts(lastEval.targetLevel)) :
          IsMastered(RequiredConcepts(lastEval.targetLevel)[i])
    /\ LastDecision.decision = "BLOCK"

(* C3: every call of evaluateProgression, one that ends in the catch block
   included, appends exactly one record to the learner's progressionHistory, and
   the record says ALLOW exactly when the call returned canProgress = true. *)
C3_OneRecordPerCall ==
    [][ evals' = evals + 1 =>
          LET id == lastEval'.learnerId
              old == IF id \in DOMAIN progressionHistory
                     THEN progressionHistory[id] ELSE <<>>
          IN  /\ id \in DOMAIN progressionHistory'
              /\ Len(progressionHistory'[id]) = Len(old) + 1
              /\ SubSeq(progressionHistory'[id], 1, Len(old)) = old
              /\ progressionHistory'[id][Len(old) + 1].decision \in {"ALLOW", "BLOCK"}
              /\ (progressionHistory'[id][Len(old) + 1].decision = "ALLOW")
                    <=> lastEval'.canProgress
              /\ progressionHistory'[id][Len(old) + 1].targetLevel = lastEval'.targetLevel
              /\ \A other \in DOMAIN progressionHistory \ {id} :
                    progressionHistory'[other] = progressionHistory[other]
      ]_vars

(* calls that returned normally and a call that ended in the catch block have
   each left their record *)
C3_Witness ==
    /\ lastEval.called
    /\ lastEval.threw
    /\ Len(HistoryOf(lastEval.learnerId)) = evals
    /\ evals >= 3
    /\ \E i \in 1..Len(PriorDecisions) : PriorDecisions[i].reason = "Cannot skip levels"

(* C4: a call in which a step threw returns canProgress = false with the safety
   reason and records BLOCK with that reason. *)
C4_ExceptionsBlock ==
    (lastEval.called /\ lastEval.threw) =>
        /\ ~lastEval.canProgress
        /\ lastEval.reason = SafetyReason
        /\ LastDecision.decision = "BLOCK"
        /\ LastDecision.reason = SafetyReason

(* the mastery step threw while every required concept was mastered: the
   exception came out of getPerformanceAnalytics *)
C4_Witness ==
    /\ lastEval.called
    /\ lastEval.threw
    /\ ~SomeRequiredUnmastered
    /\ lastEval.reason = SafetyReason
    /\ LastDecision.decision = "BLOCK"

(* the BLOCK records for the pair (learner, target level) of the last call that
   were written in the 24 hours before it *)
RecentBlocksOfPair ==
    SelectSeq(PriorDecisions,
              LAMBDA d : /\ d.decision = "BLOCK"
                         /\ d.targetLevel = lastEval.targetLevel
                         /\ d.timestamp >= lastEval.at - 24 * HOUR)

(* C5: a call made when at least four BLOCK records for the same learner and
   target level lie in the preceding 24 hours is rejected by the cooling period,
   and the mastery step is not run. *)
C5_CooldownAfterFourBlocks ==
    (lastEval.called /\ Len(RecentBlocksOfPair) >= 4) =>
        /\ ~lastEval.canProgress
        /\ \E i \in 1..Len(lastEval.blockers) : lastEval.blockers[i] = "cooling-period"
        /\ lastEval.steps = <<"eligibility">>

(* the target levels whose first BLOCK record of the learner was written in the
   24 hours before the last call *)
TargetsFirstBlockedRecently ==
    { l \in TargetLevels :
        \E i \in 1..Len(PriorDecisions) :
            /\ PriorDecisions[i].targetLevel = l
            /\ PriorDecisions[i].decision = "BLOCK"
            /\ \A j \in 1..(i - 1) : ~(/\ PriorDecisions[j].targetLevel = l
                                        /\ PriorDecisions[j].decision = "BLOCK")
            /\ PriorDecisions[i].timestamp >= lastEval.at - 24 * HOUR }

SkipsLevels == lastEval.called /\ lastEval.targetLevel > lastEval.level + 1

(* C6 as the specification states it: a call for a target level above level + 1
   returns canProgress = false with the reason 'Cannot skip levels'. *)
C6_SkipReasonAlways ==
    SkipsLevels => /\ ~lastEval.canProgress
                   /\ lastEval.reason = "Cannot skip levels"

(* C6: a call for a target level above level + 1 returns canProgress = false with
   the blocker level-sequence and without running the mastery step; its reason is
   'Cannot skip levels', unless more than three target levels of the learner were
   first blocked in the preceding 24 hours, and then it is 'Active learning
   restrictions in place'. *)
C6_SkipBlocked ==
    SkipsLevels =>
        /\ ~lastEval.canProgress
        /\ \E i \in 1..Len(lastEval.blockers) : lastEval.blockers[i] = "level-sequence"
        /\ lastEval.steps = <<"eligibility">>
        /\ LastDecision.decision = "BLOCK"
        /\ lastEval.reason = IF Cardinality(TargetsFirstBlockedRecently) > 3
                             THEN "Active learning restrictions in place"
                             ELSE "Cannot skip levels"

(* a skipping call made while the restrictions are in place, after an earlier one
   that was answered 'Cannot skip levels' *)
C6_Witness ==
    /\ SkipsLevels
    /\ lastEval.reason = "Active learning restrictions in place"
    /\ \E i \in 1..Len(PriorDecisions) : PriorDecisions[i].reason = "Cannot skip levels"

RecentAccuracy ==
    IF attemptHistory = <<>> THEN Zero
    ELSE Rat(NumCorrect(LastN(attemptHistory, 20)), Len(LastN(attemptHistory, 20)))

(* the learner of the last call had done all that the gate asks for *)
ReadyForNextLevel ==
    /\ lastEval.called
    /\ lastEval.targetLevel = lastEval.level + 1
    /\ Cardinality(TargetsFirstBlockedRecently) <= 3
    /\ ~SomeRequiredUnmastered
    /\ RGeq(getRecentOverallPerformance(Tracker, lastEval.at), gateRules.mastery.accuracy)
    /\ RGeq(RecentAccuracy, gateRules.mastery.accuracy)
    /\ getConceptsDueForReview(Tracker, lastEval.at) = {}
    /\ lastEval.challengePassed

(* C8: no BLOCK is permanent.  A learner who has mastered every required concept
   of level + 1, whose recent accuracy is above the gate's thresholds, who has no
   review due, who is not in a cooling period and who passes the challenge is
   allowed to progress. *)
C8_ReadyLearnerProgresses ==
    ReadyForNextLevel => lastEval.canProgress

----------------------------------------------------------------------------
(* Properties of the engine (EngineSpec) *)

(* C9: an attempt whose processing has completed is durable: it is in the
   attempt history, and its concept's progress counts it, also after the page has
   been loaded again. *)
C9_AcknowledgedAttemptsDurable ==
    /\ \A i \in 1..Len(acknowledged) :
          \E j \in 1..Len(attemptHistory) : attemptHistory[j] = acknowledged[i]
    /\ \A c \in Concepts :
          TotalOf(conceptProgress, c)
             >= Len(SelectSeq(acknowledged, LAMBDA a : a.concept = c))

----------------------------------------------------------------------------
(* Properties of the review schedule (Spec) *)

LastAttempt == attemptHistory[Len(attemptHistory)]

ReviewDueOf(cp, c) == IF c \in DOMAIN cp THEN cp[c].nextReviewDue ELSE NoTime

(* C11: a step that records an incorrect attempt leaves the concept's
   nextReviewDue at the attempt time + 1 day, whatever it was before; a step that
   records a correct attempt and leaves consistencyScore = 1 leaves it at the
   attempt time + 60 days.  The spacedRepetition entry is the same time. *)
C11_ReviewAfterAttempt ==
    [][ Len(attemptHistory') = Len(attemptHistory) + 1 =>
          LET attempt == attemptHistory'[Len(attemptHistory')]
              c == attempt.concept
          IN  /\ c \in DOMAIN conceptProgress'
              /\ c \in DOMAIN spacedRepetition'
              /\ spacedRepetition'[c] = conceptProgress'[c].nextReviewDue
              /\ ~attempt.isCorrect =>
                    conceptProgress'[c].nextReviewDue = attempt.timestamp + 1 * DAY
              /\ (attempt.isCorrect /\ conceptProgress'[c].consistencyScore = One) =>
                    conceptProgress'[c].nextReviewDue = attempt.timestamp + 60 * DAY
      ]_vars

(* a third correct attempt has left the consistency at 1 and the review 60 days
   ahead, and the attempt before it was made at an earlier time *)
C11_Witness ==
    /\ Len(attemptHistory) = 3
    /\ LastAttempt.isCorrect
    /\ attemptHistory[2].timestamp < LastAttempt.timestamp
    /\ LastAttempt.concept \in DOMAIN conceptProgress
    /\ conceptProgress[LastAttempt.concept].consistencyScore = One
    /\ conceptProgress[LastAttempt.concept].nextReviewDue = LastAttempt.timestamp + 60 * DAY

(* an attempt that no catalog concept or no elapsed time can belong to *)
Malformed(attempt) ==
    attempt.concept \notin ConceptCatalog \/ attempt.timeSpent < 0

(* C13: a malformed attempt (a conceptId that is not in the concept catalog, a
   negative timeSpent) is rejected: no step appends such an attempt to
   attemptHistory or changes conceptProgress, masteryHistory or the review
   schedule on its account. *)
C13_MalformedAttemptsRejected ==
    [][ Len(attemptHistory') = Len(attemptHistory) + 1 =>
          ~Malformed(attemptHistory'[Len(attemptHistory')])
      ]_vars

AchievementsOf(mh, c) == IF c \in DOMAIN mh THEN Len(mh[c]) ELSE 0

(* C17: a step that records an attempt and in which the concept is evaluated as
   mastered (a MasteryAchievement is recorded) leaves the concept's nextReviewDue
   at the attempt time + 30 days. *)
C17_MasteredReviewIn30Days ==
    [][ LET attempt == attemptHistory'[Len(attemptHistory')]
            c == attempt.concept
        IN  (/\ Len(attemptHistory') = Len(attemptHistory) + 1
             /\ AchievementsOf(masteryHistory', c) > AchievementsOf(masteryHistory, c))
            => ReviewDueOf(conceptProgress', c) = attempt.timestamp + 30 * DAY
      ]_vars

(* the weighted overall score of the concept's five component scores *)
OverallOf(c) == calculateOverallMastery(calculateMasteryScores(Tracker, conceptProgress[c]))

(* each of the concept's five component scores is at or above its threshold *)
ComponentsMet(c) ==
    LET scores == calculateMasteryScores(Tracker, conceptProgress[c])
    IN  /\ RGeq(scores.accuracy, Rat(85, 100))
        /\ RGeq(scores.consistency, Rat(80, 100))
        /\ RGeq(scores.reasoning, Rat(75, 100))
        /\ RGeq(scores.retention, Rat(70, 100))
        /\ RGeq(scores.application, Rat(80, 100))

(* C18: in every state and for every concept, evaluateMastery returns true exactly
   when the concept has at least 3 attempts, its weighted overall score is at
   least 0.85 and each of its five component scores meets its threshold; with
   fewer than 3 attempts it returns false and leaves masteryLevel as it was. *)
C18_MasteryExactlyWhen ==
    \A c \in Concepts :
        LET ev == evaluateMastery(Tracker, c, now)
        IN  /\ ev.result <=> (/\ c \in DOMAIN conceptProgress
                              /\ conceptProgress[c].totalAttempts >= 3
                              /\ RGeq(OverallOf(c), Rat(85, 100))
                              /\ ComponentsMet(c))
            /\ (c \in DOMAIN conceptProgress /\ conceptProgress[c].totalAttempts < 3) =>
                  /\ ~ev.result
                  /\ ev.T.cp[c].masteryLevel = conceptProgress[c].masteryLevel
                  /\ ev.T.mh = masteryHistory

(* a concept with three attempts that evaluateMastery finds mastered and has
   recorded as mastered, beside a concept with fewer than three attempts *)
C18_Witness ==
    \E c \in DOMAIN conceptProgress :
        /\ conceptProgress[c].totalAttempts = 3
        /\ evaluateMastery(Tracker, c, now).result
        /\ AchievementsOf(masteryHistory, c) >= 1
        /\ RGeq(conceptProgress[c].masteryLevel, Rat(85, 100))

----------------------------------------------------------------------------
(* Properties of the gate's evaluation (GateSpec) *)

(* the evaluateProgression call of this step returns the same outcome and the
   same reason whatever Math.random() draws *)
SameOutcomeForEveryDraw ==
    \A ch \in ChallengeDraws :
        LET p == CHOOSE q \in Profiles : q.id = lastEval'.learnerId /\ q.level = lastEval'.level
            r == evaluateProgression(Gate, Tracker, p, lastEval'.targetLevel, now,
                                     StackDepth, ch)
        IN  /\ r.evaluation.canProgress = lastEval'.canProgress
            /\ r.evaluation.reason = lastEval'.reason

(* the challenge assessment of this step passes or fails whatever Math.random()
   draws *)
SameChallengeForEveryDraw ==
    \A ch \in ChallengeDraws : performChallengeAssessment(ch) = lastEval'.challengePassed

(* C16: gating is deterministic: an evaluation of progression, its challenge
   assessment included, returns the same outcome and the same reason as every
   other evaluation from the same profile, tracker, history and clock. *)
C16_GatingDeterministic ==
    [][ evals' = evals + 1 => SameOutcomeForEveryDraw /\ SameChallengeForEveryDraw ]_vars

----------------------------------------------------------------------------
(* Properties of the gate's steps (GateStepsSpec) *)

(* C19: the strict criteria of the final gate pass only if the total number of
   attempts in evidence is at least 3 and the total time spent is at least the
   minTimeSpent of the target level (450000 ms for level 4, 600000 ms for
   level 5). *)
C19_StrictCriteriaOfTheLevel ==
    (lastStep.method = "applyStrictCriteria" /\ lastStep.passed) =>
        /\ lastStep.evidence.totalAttempts >= 3
        /\ lastStep.evidence.totalTimeSpent >=
              getLevelRequirements(lastStep.targetLevel).minTimeSpent

(* the share of correct attempts among those made in the assessment context is at
   least 0.80 *)
ApplicationShown ==
    LET shown == SelectSeq(attemptHistory, LAMBDA a : a.context = "assessment")
    IN  Len(shown) > 0 /\ RGeq(Rat(NumCorrect(shown), Len(shown)), Rat(80, 100))

(* C20: checkRetentionAndApplication gives its verdict, and it passes only if at
   least 24 hours have elapsed since the learner's last learning session, the
   application score of the attempts made in the assessment context is at least
   0.80, and no concept has a nextReviewDue in the past. *)
C20_RetentionAndApplication ==
    lastStep.method = "checkRetentionAndApplication" =>
        /\ ~lastStep.threw
        /\ lastStep.passed =>
              /\ lastStep.learner.lastLearningSession # NoTime =>
                    lastStep.at - lastStep.learner.lastLearningSession >= 24 * HOUR
              /\ ApplicationShown
              /\ \A c \in DOMAIN conceptProgress :
                    \/ conceptProgress[c].nextReviewDue = NoTime
                    \/ conceptProgress[c].nextReviewDue >= lastStep.at

----------------------------------------------------------------------------
(* Properties of the phases (SessionSpec) *)

(* C14: the phases of a unit occur in the order introduction, learning,
   assessment: no step takes the engine to the assessment phase from the
   introduction phase directly. *)
C14_NoAssessmentFromIntroduction ==
    [][ currentPhase = "introduction" => currentPhase' # "assessment" ]_vars

----------------------------------------------------------------------------
(* Properties of the validator (ValidatorSpec) *)

ShortReasoning ==
    \/ ~validateCall.reasoning.defined
    \/ Len(trim(validateCall.reasoning.value)) < 5

(* C12: validate on a reasoning text that is missing, empty or shorter than 5
   characters once trimmed returns isValid = false and score = 0, whatever the
   question, the answer and the correctness are. *)
C12_ShortReasoningInvalid ==
    (reasoningValidation.called /\ ShortReasoning) =>
        /\ ~reasoningValidation.result.threw
        /\ ~reasoningValidation.result.isValid
        /\ reasoningValidation.result.score = Zero

(* a text of more than 5 characters of which fewer than 5 are left after
   trimming, validated for a correct numerical answer to no question at all *)
C12_Witness ==
    /\ reasoningValidation.called
    /\ validateCall.reasoning.defined
    /\ Len(validateCall.reasoning.value) > 5
    /\ Len(trim(validateCall.reasoning.value)) \in 1..4
    /\ validateCall.question = NoQuestion
    /\ validateCall.isCorrect
    /\ validateCall.answer.isNumber
    /\ ~reasoningValidation.result.isValid
    /\ reasoningValidation.result.score = Zero

(* C15: validate returns isValid = true only if all six criteria meet their
   minimums: clarity 0.7, logic 0.8, evidence 0.6, completeness 0.7, relevance
   0.8 and consistency 0.6. *)
C15_ValidMeetsSixMinimums ==
    (reasoningValidation.called /\ reasoningValidation.result.isValid) =>
        /\ \A i \in 1..Len(Criteria) :
              RGeq(reasoningValidation.result.analysis[Criteria[i]],
                   validationCriteria[Criteria[i]])
        /\ RGeq(reasoningValidation.result.analysis.consistency, Rat(60, 100))

----------------------------------------------------------------------------
(* Properties of the cooling period (GateSpec) *)

CoolingPeriod ==
    /\ lastEval.called
    /\ \E i \in 1..Len(lastEval.blockers) : lastEval.blockers[i] = "cooling-period"

(* C21: the cooling period is per learner and target level: a call is restricted
   by it only if at least four BLOCK decisions for its own pair were recorded in
   the preceding 24 hours; BLOCK decisions for other target levels of the learner
   do not restrict it. *)
C21_CooldownPerPair ==
    CoolingPeriod => Len(RecentBlocksOfPair) >= 4

(* the BLOCK records of the learner for the target level *)
BlocksOf(learnerId, targetLevel) ==
    SelectSeq(HistoryOf(learnerId),
              LAMBDA d : d.decision = "BLOCK" /\ d.targetLevel = targetLevel)

(* every pair with a BLOCK record has a blocked-attempt record, and every
   blocked-attempt record counts the BLOCK records of its pair *)
BlockedCountsMatch ==
    /\ \A p \in Profiles, l \in TargetLevels :
          IF BlocksOf(p.id, l) = <<>>
          THEN blockedKey(p.id, l) \notin DOMAIN blockedAttempts
          ELSE /\ blockedKey(p.id, l) \in DOMAIN blockedAttempts
               /\ blockedAttempts[blockedKey(p.id, l)].attempts = Len(BlocksOf(p.id, l))
    /\ \A key \in DOMAIN blockedAttempts :
          key = blockedKey(blockedAttempts[key].learnerId, blockedAttempts[key].targetLevel)

(* recording an ALLOW decision for any learner and target level would leave the
   blocked-attempt records as they are *)
AllowKeepsBlockedAttempts ==
    \A p \in Profiles, l \in TargetLevels :
        recordProgressionDecision(Gate, p, l,
                                  [NewEvaluation EXCEPT !.canProgress = TRUE], now).ba
            = blockedAttempts

(* C23: after every step, the blocked-attempt count stored for a learner and
   target level equals the number of BLOCK records in progressionHistory for
   that pair; recording an ALLOW changes no blocked-attempt record; and the
   records already in progressionHistory are neither modified nor removed. *)
C23_BlockedCountIsBlockRecords ==
    [][ /\ BlockedCountsMatch'
        /\ AllowKeepsBlockedAttempts'
        /\ \A id \in DOMAIN progressionHistory :
              /\ id \in DOMAIN progressionHistory'
              /\ Len(progressionHistory'[id]) >= Len(progressionHistory[id])
              /\ SubSeq(progressionHistory'[id], 1, Len(progressionHistory[id]))
                    = progressionHistory[id]
      ]_vars

(* a pair that was blocked three times beside a pair that was blocked once *)
C23_Witness ==
    /\ BlockedCountsMatch
    /\ \E k1, k2 \in DOMAIN blockedAttempts :
          /\ blockedAttempts[k1].attempts >= 3
          /\ blockedAttempts[k2].attempts = 1
          /\ Len(HistoryOf(blockedAttempts[k1].learnerId)) >= 4

(* more than 24 hours before the last call the learner called for a target level
   that was blocked already, while the cooling period restricted the learner *)
CalledDuringCooldown ==
    \E i \in 1..Len(PriorDecisions) :
        /\ PriorDecisions[i].reason = "Active learning restrictions in place"
        /\ PriorDecisions[i].timestamp < lastEval.at - 24 * HOUR
        /\ \E j \in 1..(i - 1) :
              PriorDecisions[j].targetLevel = PriorDecisions[i].targetLevel

(* C24: the cooling period is temporary.  A call made when at most three target
   levels of the learner were first blocked in the preceding 24 hours is not
   restricted by the cooling period, whatever was blocked before and however often
   the learner called again for the target levels that were already blocked. *)
C24_CooldownIsTemporary ==
    (lastEval.called /\ Cardinality(TargetsFirstBlockedRecently) <= 3) => ~CoolingPeriod

(* four target levels were blocked, the learner kept calling while the cooling
   period lasted, and a call made more than 24 hours later for one of these target
   levels is not restricted *)
C24_Witness ==
    /\ lastEval.called
    /\ CalledDuringCooldown
    /\ TargetsFirstBlockedRecently = {}
    /\ \E i \in 1..Len(PriorDecisions) :
          PriorDecisions[i].targetLevel = lastEval.targetLevel
    /\ ~CoolingPeriod

----------------------------------------------------------------------------
(* Properties of the analytics (GateStepsSpec) *)

(* C25: getPerformanceAnalytics returns an analytics object for the tracker as it
   is, and a final gate evaluation, which compiles its evidence from the
   analytics, completes without an exception. *)
C25_AnalyticsTerminate ==
    /\ ~getPerformanceAnalytics(Tracker, now, StackDepth).threw
    /\ lastStep.method = "performFinalGateEvaluation" => ~lastStep.threw

----------------------------------------------------------------------------
(* Properties of the queries (Spec) *)

(* the step is a call of canProgress, getUnmasteredConcepts or
   getPerformanceAnalytics *)
QueryStep ==
    \/ \E cs \in ConceptLists : CanProgress(cs)
    \/ \E cs \in ConceptLists : GetUnmasteredConcepts(cs)
    \/ GetPerformanceAnalytics

(* C26: the progression queries are read-only.  A call of canProgress,
   getUnmasteredConcepts or getPerformanceAnalytics leaves attemptHistory,
   masteryHistory, spacedRepetition and every concept's nextReviewDue as they
   were, so that a concept that was overdue before the call is overdue after it. *)
C26_QueriesReadOnly ==
    [][ QueryStep =>
          /\ UNCHANGED <<attemptHistory, masteryHistory, spacedRepetition>>
          /\ \A c \in DOMAIN conceptProgress :
                conceptProgress'[c].nextReviewDue = conceptProgress[c].nextReviewDue
      ]_vars

----------------------------------------------------------------------------
(* Properties of the submissions (SubmitSpec) *)

(* C27: one submit action runs handleResponse once.  After any number of submit
   actions that carried an answer and a reasoning, currentAttempts is that
   number, one attempt was recorded for each of them, and the i-th recorded
   attempt carries i as its attempts. *)
C27_OneSubmitOneAttempt ==
    /\ currentAttempts = submissions
    /\ Len(attemptHistory) = submissions
    /\ \A i \in 1..Len(attemptHistory) : attemptHistory[i].attempts = i

----------------------------------------------------------------------------
(* Properties of the scores (Spec) *)

(* the positions, in the concept's attempts as, of the attempts made more than 24
   hours after the attempt before them *)
AfterLongGaps(as) ==
    SelectSeq([k \in 1..(Len(as) - 1) |-> k + 1],
              LAMBDA i : as[i].timestamp - as[i - 1].timestamp > 24 * HOUR)

(* the accuracy of the attempts from position i up to the next gap of more than
   one hour *)
PostGapAccuracy(as, i) ==
    LET last == CHOOSE e \in i..Len(as) :
                    /\ \A j \in (i + 1)..e : as[j].timestamp - as[j - 1].timestamp <= HOUR
                    /\ e = Len(as) \/ as[e + 1].timestamp - as[e].timestamp > HOUR
    IN  Rat(NumCorrect(SubSeq(as, i, last)), last - i + 1)

(* the mean post-gap accuracy over the gaps of more than 24 hours, 0.5 without one *)
MeanPostGapAccuracy(as) ==
    LET starts == AfterLongGaps(as)
    IN  IF starts = <<>> THEN Half
        ELSE RDivInt(RSum([k \in 1..Len(starts) |-> PostGapAccuracy(as, starts[k])]),
                     Len(starts))

(* C22: after each attempt the concept's retentionScore is the mean post-gap
   accuracy over the gaps of more than 24 hours between consecutive attempts on
   the concept as soon as there is one such gap, and the default 0.5 only when
   there is none. *)
C22_RetentionIsPostGapMean ==
    \A c \in DOMAIN conceptProgress :
        LET expected == MeanPostGapAccuracy(AttemptsOf(c))
        IN  /\ RGeq(conceptProgress[c].retentionScore, expected)
            /\ RGeq(expected, conceptProgress[c].retentionScore)

(* the concept has attempts, and every one of them was recorded as practice *)
PracticeOnly(c) ==
    /\ c \in DOMAIN conceptProgress
    /\ \A i \in 1..Len(AttemptsOf(c)) : AttemptsOf(c)[i].context = "practice"

(* C28: a concept whose attempts were all recorded with the context practice is
   not mastered: evaluateMastery returns false for it, masteryHistory holds no
   achievement of it, and its application score is the default of 0.5. *)
C28_PracticeNeverMasters ==
    \A c \in Concepts :
        PracticeOnly(c) =>
            /\ ~evaluateMastery(Tracker, c, now).result
            /\ AchievementsOf(masteryHistory, c) = 0
            /\ calculateApplicationScore(Tracker, conceptProgress[c]) = Half

(* three practice attempts whose accuracy, consistency, reasoning and retention
   scores are all at or above their thresholds *)
C28_Witness ==
    \E c \in Concepts :
        /\ PracticeOnly(c)
        /\ Len(AttemptsOf(c)) >= 3
        /\ LET scores == calculateMasteryScores(Tracker, conceptProgress[c])
           IN  \A component \in {"accuracy", "consistency", "reasoning", "retention"} :
                   RGeq(scores[component], masteryThresholds[component])

----------------------------------------------------------------------------
(* Properties of a concept's history (HistorySpec) *)

(* the concept's most recent min(5, n) attempts are all correct *)
RecentAllCorrect(as) ==
    \A i \in 1..Len(as) : i > Len(as) - 5 => as[i].isCorrect

(* C29: when evaluateMastery returns true for a concept, its most recent
   min(5, n) attempts are all correct; and a recordAttempt with an incorrect
   outcome adds no achievement to masteryHistory and leaves evaluateMastery false
   for the concept. *)
C29_MasteryNeedsRecentCorrect ==
    [][ LET after == [ah |-> attemptHistory', cp |-> conceptProgress',
                      mh |-> masteryHistory', sr |-> spacedRepetition']
            last == attemptHistory'[Len(attemptHistory')]
            attemptsAfter(c) == SelectSeq(attemptHistory', LAMBDA a : a.concept = c)
        IN  \A c \in Concepts :
              /\ evaluateMastery(after, c, now').result
                    => RecentAllCorrect(attemptsAfter(c))
              /\ (/\ Len(attemptHistory') = Len(attemptHistory) + 1
                  /\ last.concept = c
                  /\ ~last.isCorrect)
                 => /\ AchievementsOf(masteryHistory', c)
                          = AchievementsOf(masteryHistory, c)
                    /\ ~evaluateMastery(after, c, now').result
      ]_vars

(* a concept that was mastered, with more than five attempts by now, whose last
   attempt was incorrect and came after its last achievement *)
C29_Witness ==
    /\ Len(attemptHistory) > 5
    /\ ~LastAttempt.isCorrect
    /\ AchievementsOf(masteryHistory, LastAttempt.concept) > 0
    /\ \A i \in 1..AchievementsOf(masteryHistory, LastAttempt.concept) :
          masteryHistory[LastAttempt.concept][i].attemptsRequired
              < Len(AttemptsOf(LastAttempt.concept))

(* the days between the concept's last attempt and its next review *)
ScheduledDays(c) ==
    (conceptProgress[c].nextReviewDue - conceptProgress[c].lastAttemptAt) \div DAY

(* C30: after any recordAttempt the concept's consistencyScore is 0, with fewer
   than three attempts on the concept, or at least 0.5, and the review is
   scheduled 1, 14, 30 or 60 days after the attempt: the 3-day and the 7-day
   interval are never selected. *)
C30_IntervalsSelected ==
    \A c \in DOMAIN conceptProgress :
        /\ IF Len(AttemptsOf(c)) < 3
           THEN conceptProgress[c].consistencyScore = Zero
           ELSE RGeq(conceptProgress[c].consistencyScore, Half)
        /\ conceptProgress[c].nextReviewDue
              = conceptProgress[c].lastAttemptAt + ScheduledDays(c) * DAY
        /\ ScheduledDays(c) \in {1, 14, 30, 60}

(* a correct attempt on a concept whose last attempts were not all alike: the
   consistency score lies between 0.5 and 1 and the review is due in 14 days *)
C30_Witness ==
    \E c \in DOMAIN conceptProgress :
        /\ Len(AttemptsOf(c)) >= 3
        /\ AttemptsOf(c)[Len(AttemptsOf(c))].isCorrect
        /\ RLt(conceptProgress[c].consistencyScore, One)
        /\ ScheduledDays(c) = 14

====
